---- MODULE Spec2Model ----
(***************************************************************************)
(* A model of pgread's PostgreSQL storage-format decoder (package pgdump): *)
(* binary primitives, type decoder, heap page and tuple parsers, the row   *)
(* decoder and the dump orchestrator.                                      *)
(*                                                                         *)
(* Go values are represented as follows.                                   *)
(*  - A byte slice is a record [mem, base, len, cap]: mem maps positions   *)
(*    of the backing array to bytes (a byte it does not map is zero), base *)
(*    is the position of the slice's element 0, len and cap are the Go     *)
(*    length and capacity.  Index expressions and the little-endian        *)
(*    readers are checked against len, slice expressions s[a:b] against    *)
(*    the capacity, as in Go.                                              *)
(*  - A run-time panic is an explicit outcome (field panic / ok).          *)
(*  - A uint32 is a pair of 16-bit halves [lo, hi], a uint64 four 16-bit   *)
(*    words, because TLC's integers are 32-bit signed.                     *)
(***************************************************************************)
EXTENDS Integers, Sequences, FiniteSets, TLC

(***************************************************************************)
(* Bounds of the model.                                                    *)
(***************************************************************************)
MaxPad == 33
MaxSlack == 40
MaxCols == 2
MaxData == 5
MaxBroken == 2

\* rows of a pg_attribute file
MaxAttrRows == 6

\* entries of a JSONB container
MaxJsonCount == 2

\* bytes missing from the end of a range value
MaxRangeCut == 1

\* attribute slots of a table under dropped-column recovery
MaxSlots == 3

\* facade calls on one remote client
MaxCalls == 3

\* bytes of a control file beyond the 296 the parser requires
MaxCtlTail == 1

\* highest of the low block numbers a page is verified under
MaxCkBlock == 1

\* pages of an index file
MaxIdxPages == 2

\* bytes of an array behind its 20-byte header
MaxArrBody == 8

(***************************************************************************)
(* Type OIDs (types.go).                                                   *)
(***************************************************************************)
OidBool == 16
OidBytea == 17
OidChar == 18
OidName == 19
OidInt8 == 20
OidInt2 == 21
OidInt4 == 23
OidText == 25
OidOid == 26
OidTid == 27
OidXid == 28
OidCid == 29
OidJSON == 114
OidXML == 142
OidPoint == 600
OidLseg == 601
OidPath == 602
OidBox == 603
OidPolygon == 604
OidLine == 628
OidCircle == 718
OidCidr == 650
OidFloat4 == 700
OidFloat8 == 701
OidMacaddr8 == 774
OidMoney == 790
OidMacaddr == 829
OidInet == 869
OidBpchar == 1042
OidVarchar == 1043
OidDate == 1082
OidTime == 1083
OidTimestamp == 1114
OidTimestampTZ == 1184
OidInterval == 1186
OidTimeTZ == 1266
OidBit == 1560
OidVarbit == 1562
OidNumeric == 1700
OidUUID == 2950
OidPgLsn == 3220
OidTsvector == 3614
OidTsquery == 3615
OidJSONB == 3802
OidJSONPath == 4072
OidInt4Range == 3904
OidNumRange == 3906
OidTsRange == 3908
OidTsTzRange == 3910
OidDateRange == 3912
OidInt8Range == 3926

(***************************************************************************)
(* Go byte slices.                                                         *)
(***************************************************************************)
Min(a, b) == IF a < b THEN a ELSE b

Max(a, b) == IF a > b THEN a ELSE b

\* a slice over a whole sequence: capacity equals length
FromSeq(s) == [mem |-> s, base |-> 1, len |-> Len(s), cap |-> Len(s)]

\* a slice of length n over a longer backing array
WithCap(s, n) == [mem |-> s, base |-> 1, len |-> n, cap |-> Len(s)]

\* a slice of length n and capacity c over the memory map m
MkSlice(m, n, c) == [mem |-> m, base |-> 1, len |-> n, cap |-> c]

\* the memory map of a sequence of bytes: only the non-zero bytes are held
Sparse(s) == [i \in {j \in DOMAIN s : s[j] # 0} |-> s[i]]

Cap(d) == d.cap

\* d[i] is legal iff 0 <= i < len(d)
InRange(d, i) == i >= 0 /\ i < d.len

\* the byte at index i; bytes the memory map does not hold are zero
At(d, i) == IF d.base + i \in DOMAIN d.mem THEN d.mem[d.base + i] ELSE 0

\* d[a:b] is legal iff 0 <= a <= b <= cap(d)
CanSlice(d, a, b) == a >= 0 /\ a <= b /\ b <= Cap(d)

Slice(d, a, b) ==
    [mem |-> d.mem, base |-> d.base + a, len |-> b - a, cap |-> d.cap - a]

\* the bytes d[a:b] as a sequence
Sub(d, a, b) == [i \in 1..(b - a) |-> At(d, a + i - 1)]

\* the bytes of the slice proper
Bytes(d) == Sub(d, 0, d.len)

(***************************************************************************)
(* Binary primitives (binary.go).  A reader applied at offset off to a     *)
(* slice evaluates data[off:] and then indexes the last byte it needs;     *)
(* both are checked against len(data), so the read succeeds iff            *)
(* off + width <= len(data) and panics otherwise.  ok = FALSE is the panic.*)
(***************************************************************************)
Fits(data, off, n) == off >= 0 /\ off + n <= data.len

u16(data, off) ==
    IF Fits(data, off, 2)
    THEN [ok |-> TRUE, v |-> At(data, off) + 256 * At(data, off + 1)]
    ELSE [ok |-> FALSE, v |-> 0]

u32(data, off) ==
    IF Fits(data, off, 4)
    THEN [ok |-> TRUE, lo |-> At(data, off) + 256 * At(data, off + 1),
                       hi |-> At(data, off + 2) + 256 * At(data, off + 3)]
    ELSE [ok |-> FALSE, lo |-> 0, hi |-> 0]

u64(data, off) ==
    IF Fits(data, off, 8)
    THEN [ok |-> TRUE,
          w |-> [k \in 1..4 |-> At(data, off + 2 * (k - 1))
                                + 256 * At(data, off + 2 * (k - 1) + 1)]]
    ELSE [ok |-> FALSE, w |-> <<0, 0, 0, 0>>]

i16(data, off) ==
    LET r == u16(data, off)
    IN [ok |-> r.ok, v |-> IF r.v >= 32768 THEN r.v - 65536 ELSE r.v]

i32(data, off) ==
    LET r == u32(data, off)
    IN [ok |-> r.ok,
        v |-> IF r.hi >= 32768 THEN (r.hi - 65536) * 65536 + r.lo
                               ELSE r.hi * 65536 + r.lo]

i64(data, off) == u64(data, off)

\* align without the mask: the padding is added but never rounded off
align_nomask(offset, alignment) ==
    IF alignment <= 1 THEN offset ELSE offset + alignment - 1

\* align rounds offset up to the alignment boundary:
\* (offset + alignment - 1) &^ (alignment - 1), alignment a power of two
align(offset, alignment) ==
    IF alignment <= 1 THEN offset
    ELSE (offset + alignment - 1) - ((offset + alignment - 1) % alignment)

\* index of the first NUL among the first n bytes, n if there is none
RECURSIVE FirstNul(_, _, _)
FirstNul(data, i, n) ==
    IF i >= n THEN n
    ELSE IF At(data, i) = 0 THEN i
    ELSE FirstNul(data, i + 1, n)

\* cstring reads a NUL-terminated string of at most maxLen bytes
cstring(data, maxLen) ==
    Sub(data, 0, FirstNul(data, 0, Min(data.len, maxLen)))

(***************************************************************************)
(* Decoded values: kind names the Go type or the formatted form, val the   *)
(* value as a sequence of integers, used the number of leading bytes of    *)
(* the backing array the decoder touched.                                  *)
(***************************************************************************)
NilResult == [panic |-> FALSE, kind |-> "nil", val |-> <<>>, used |-> 0]

PanicResult == [panic |-> TRUE, kind |-> "panic", val |-> <<>>, used |-> 0]

Val(k, v, n) == [panic |-> FALSE, kind |-> k, val |-> v, used |-> n]

\* a value read by a reader: the reader's panic is the decoder's panic
FromRead(r, k, v, n) == IF r.ok THEN Val(k, v, n) ELSE PanicResult

\* safeString: valid UTF-8 is kept, each run of invalid bytes becomes '.'
\* (46).  The model's byte alphabet holds no UTF-8 lead byte (0xC2..0xF4),
\* so a byte is valid iff it is below 0x80.
RECURSIVE Sanitize(_, _)
Sanitize(s, prevBad) ==
    IF s = <<>> THEN <<>>
    ELSE IF Head(s) < 128 THEN <<Head(s)>> \o Sanitize(Tail(s), FALSE)
    ELSE IF prevBad THEN Sanitize(Tail(s), TRUE)
    ELSE <<46>> \o Sanitize(Tail(s), TRUE)

safeString(data) == Val("string", Sanitize(Bytes(data), FALSE), data.len)

\* decodePoint: "(?,?)" below 16 bytes, else the two float64 bit patterns
decodePoint(data) ==
    IF data.len < 16 THEN Val("point?", <<>>, 0)
    ELSE Val("point", u64(data, 0).w \o u64(data, 8).w, 16)

\* decodeBitString: "" below 4 bytes or for bit length 0; otherwise one
\* character per bit i < bitlen, '1' iff byte 4 + i/8 exists and has bit
\* 7 - i%8 set.  The bits beyond the data are all '0' and are counted.
BitOf(data, i) ==
    IF 4 + i \div 8 < data.len
       /\ (At(data, 4 + i \div 8) \div (2 ^ (7 - (i % 8)))) % 2 = 1
    THEN 1 ELSE 0

decodeBitString(data) ==
    IF data.len < 4 THEN Val("bits", <<>>, data.len)
    ELSE LET bitlen == i32(data, 0).v
             stored == Min(Max(bitlen, 0), 8 * (data.len - 4))
         IN IF bitlen <= 0 THEN Val("bits", <<>>, 4)
            ELSE Val("bits", <<bitlen - stored>>
                             \o [i \in 1..stored |-> BitOf(data, i - 1)],
                     data.len)

\* decodeInterval: "0" below 16 bytes, else microseconds, days, months
decodeInterval(data) ==
    IF data.len < 16 THEN Val("interval0", <<>>, 0)
    ELSE Val("interval", i64(data, 0).w \o <<i32(data, 8).v, i32(data, 12).v>>, 16)

\* decodeInet: family 2 is IPv4, family 3 IPv6, anything else is hex-dumped
decodeInet(data) ==
    IF data.len < 4 THEN Val("inet", <<>>, data.len)
    ELSE LET family == At(data, 0)
             bits == At(data, 1)
             addrLen == At(data, 3)
         IN IF family = 2 /\ addrLen = 4 /\ data.len >= 8
            THEN Val("ipv4", Sub(data, 4, 8)
                             \o (IF bits # 32 THEN <<bits>> ELSE <<>>), 8)
            ELSE IF family = 3 /\ addrLen = 16 /\ data.len >= 20
            THEN Val("ipv6", Sub(data, 4, 20)
                             \o (IF bits # 128 THEN <<bits>> ELSE <<>>), 20)
            ELSE Val("inethex", Bytes(data), data.len)

\* decodePathOrPolygon: "" below 5 bytes or below 5 + npts*16 bytes;
\* make([]string, npts) panics for a negative npts
decodePathOrPolygon(data, oid) ==
    IF data.len < 5 THEN Val("path", <<>>, data.len)
    ELSE LET closed == At(data, 0) # 0
             npts == i32(data, 1).v
         IN IF npts >= 0 /\ npts > (data.len - 5) \div 16
            THEN Val("path", <<>>, 5)
            ELSE IF npts < 0 THEN PanicResult
            ELSE Val(IF oid = OidPolygon \/ closed THEN "closedpath" ELSE "openpath",
                     Sub(data, 5, 5 + npts * 16), 5 + npts * 16)

(***************************************************************************)
(* Type decoder (types.go).  The scalar types decoded here are the fixed-  *)
(* width, text, bit-string, network and geometric types.                   *)
(***************************************************************************)
ScalarOids ==
    {OidBool, OidChar, OidName, OidInt2, OidInt4, OidXid, OidCid, OidInt8,
     OidOid, OidTid, OidFloat4, OidFloat8, OidMoney, OidText, OidVarchar,
     OidBpchar, OidJSON, OidXML, OidJSONPath, OidBytea, OidBit, OidVarbit,
     OidDate, OidTime, OidTimeTZ, OidTimestamp, OidTimestampTZ, OidInterval,
     OidMacaddr, OidMacaddr8, OidInet, OidCidr, OidUUID, OidPgLsn, OidPoint,
     OidLseg, OidBox, OidLine, OidCircle, OidPath, OidPolygon, OidTsvector,
     OidTsquery}

\* an OID no case of decodeScalar names
OidUnknown == 99999

\* both points of an lseg / box: decodePoint(data[0:16]), decodePoint(data[16:32])
TwoPoints(data, k) ==
    IF CanSlice(data, 0, 16) /\ CanSlice(data, 16, 32)
    THEN Val(k, decodePoint(Slice(data, 0, 16)).val
                \o decodePoint(Slice(data, 16, 32)).val, 32)
    ELSE PanicResult

decodeScalar(data, oid) ==
    CASE oid = OidBool -> Val("bool", <<IF At(data, 0) # 0 THEN 1 ELSE 0>>, 1)
      [] oid = OidChar -> Val("string", Sub(data, 0, 1), 1)
      [] oid = OidName -> Val("string", cstring(data, 64), Min(data.len, 64))
      [] oid = OidInt2 -> LET r == i16(data, 0) IN FromRead(r, "int16", <<r.v>>, 2)
      [] oid \in {OidInt4, OidXid, OidCid} ->
            LET r == i32(data, 0) IN FromRead(r, "int32", <<r.v>>, 4)
      [] oid = OidInt8 -> LET r == i64(data, 0) IN FromRead(r, "int64", r.w, 8)
      [] oid = OidOid -> LET r == u32(data, 0) IN FromRead(r, "uint32", <<r.lo, r.hi>>, 4)
      [] oid = OidTid ->
            LET b == u32(data, 0)
                o == u16(data, 4)
            IN FromRead([ok |-> b.ok /\ o.ok], "tid", <<b.lo, b.hi, o.v>>, 6)
      [] oid = OidFloat4 -> LET r == u32(data, 0) IN FromRead(r, "float32", <<r.lo, r.hi>>, 4)
      [] oid = OidFloat8 -> LET r == u64(data, 0) IN FromRead(r, "float64", r.w, 8)
      [] oid = OidMoney -> LET r == i64(data, 0) IN FromRead(r, "money", r.w, 8)
      [] oid \in {OidText, OidVarchar, OidBpchar, OidJSON, OidXML, OidJSONPath} ->
            safeString(data)
      [] oid = OidBytea -> Val("hex", Bytes(data), data.len)
      [] oid \in {OidBit, OidVarbit} -> decodeBitString(data)
      [] oid = OidDate -> LET r == i32(data, 0) IN FromRead(r, "date", <<r.v>>, 4)
      [] oid = OidTime -> LET r == i64(data, 0) IN FromRead(r, "time", r.w, 8)
      [] oid = OidTimeTZ ->
            LET us == i64(data, 0)
                tz == i32(data, 8)
            IN FromRead([ok |-> us.ok /\ tz.ok], "timetz", us.w \o <<tz.v>>, 12)
      [] oid \in {OidTimestamp, OidTimestampTZ} ->
            LET r == i64(data, 0) IN FromRead(r, "timestamp", r.w, 8)
      [] oid = OidInterval -> decodeInterval(data)
      [] oid = OidMacaddr ->
            IF InRange(data, 5) THEN Val("mac", Sub(data, 0, 6), 6)
            ELSE PanicResult
      [] oid = OidMacaddr8 ->
            IF InRange(data, 7) THEN Val("mac", Sub(data, 0, 8), 8)
            ELSE PanicResult
      [] oid \in {OidInet, OidCidr} -> decodeInet(data)
      [] oid = OidUUID ->
            IF u32(data, 0).ok /\ u16(data, 4).ok /\ u16(data, 6).ok
               /\ u16(data, 8).ok /\ CanSlice(data, 10, 16)
            THEN Val("uuid", <<u32(data, 0).lo, u32(data, 0).hi, u16(data, 4).v,
                               u16(data, 6).v, u16(data, 8).v>>
                             \o Sub(data, 10, 16), 16)
            ELSE PanicResult
      [] oid = OidPgLsn ->
            LET h == u32(data, 0)
                l == u32(data, 4)
            IN FromRead([ok |-> h.ok /\ l.ok], "lsn", <<h.lo, h.hi, l.lo, l.hi>>, 8)
      [] oid = OidPoint -> decodePoint(data)
      [] oid = OidLseg -> TwoPoints(data, "lseg")
      [] oid = OidBox -> TwoPoints(data, "box")
      [] oid = OidLine ->
            LET a == u64(data, 0)
                b == u64(data, 8)
                c == u64(data, 16)
            IN FromRead([ok |-> a.ok /\ b.ok /\ c.ok], "line", a.w \o b.w \o c.w, 24)
      [] oid = OidCircle ->
            LET r == u64(data, 16)
            IN IF CanSlice(data, 0, 16) /\ r.ok
               THEN Val("circle", decodePoint(Slice(data, 0, 16)).val \o r.w, 24)
               ELSE PanicResult
      [] oid \in {OidPath, OidPolygon} -> decodePathOrPolygon(data, oid)
      [] oid \in {OidTsvector, OidTsquery} -> safeString(data)
      [] OTHER -> safeString(data)

\* DecodeType decodes PostgreSQL binary data to a Go value: nil for empty
\* data, else the scalar decoder
DecodeType(data, oid) ==
    IF data.len = 0 THEN NilResult
    ELSE decodeScalar(data, oid)

(***************************************************************************)
(* Specification SpecType: DecodeType applied to one input.  The inputs    *)
(* are byte slices of every length up to MaxPad, with a backing array of   *)
(* the same length or MaxSlack bytes longer, and every modelled OID.       *)
(***************************************************************************)
VARIABLES ty_data, ty_oid, ty_result, ty_pc

typeVars == <<ty_data, ty_oid, ty_result, ty_pc>>

\* byte values the inputs are built from; none is a UTF-8 lead byte
ByteVals == {0, 1, 255}

\* head bytes h at the first two positions, fill byte f after them
Pattern(h, f, n) == [i \in 1..n |-> IF i <= 2 THEN h ELSE f]

TypeInputs ==
    {MkSlice(Sparse(Pattern(h, f, n + s)), n, n + s) :
        h \in ByteVals, f \in ByteVals, n \in 0..MaxPad, s \in {0, MaxSlack}}

TypeOids == ScalarOids \cup {OidUnknown}

InitType ==
    /\ ty_data \in TypeInputs
    /\ ty_oid \in TypeOids
    /\ ty_result = NilResult
    /\ ty_pc = "call"

DecodeTypeCall ==
    /\ ty_pc = "call"
    /\ ty_result' = DecodeType(ty_data, ty_oid)
    /\ ty_pc' = "done"
    /\ UNCHANGED <<ty_data, ty_oid>>

(***************************************************************************)
(* Heap tuples (tuple.go).                                                 *)
(***************************************************************************)
tupleHeaderSize == 23

\* bit k of v
Bit(v, k) == (v \div (2 ^ k)) % 2 = 1

NilTuple ==
    [nil |-> TRUE, THoff |-> 0, Natts |-> 0, Infomask |-> 0,
     XminCommitted |-> FALSE, XmaxInvalid |-> FALSE, XmaxCommitted |-> FALSE,
     HasNull |-> FALSE, BitmapNil |-> TRUE, Bitmap |-> FromSeq(<<>>),
     Data |-> FromSeq(<<>>)]

\* ParseHeapTuple parses a heap tuple from raw data
ParseHeapTuple(data) ==
    IF data.len < tupleHeaderSize THEN NilTuple
    ELSE LET infomask == u16(data, 20).v
             infomask2 == u16(data, 18).v
             hoff == At(data, 22)
             natts == infomask2 % 2048
             hasNull == Bit(infomask, 0)
             bitmapBytes == (natts + 7) \div 8
             hasBitmap == hasNull /\ data.len >= tupleHeaderSize + bitmapBytes
         IN IF hoff > data.len THEN NilTuple
            ELSE [nil |-> FALSE, THoff |-> hoff, Natts |-> natts,
                  Infomask |-> infomask,
                  XminCommitted |-> Bit(infomask, 8),
                  XmaxInvalid |-> Bit(infomask, 11),
                  XmaxCommitted |-> Bit(infomask, 10),
                  HasNull |-> hasNull,
                  BitmapNil |-> ~hasBitmap,
                  Bitmap |-> IF hasBitmap
                             THEN Slice(data, tupleHeaderSize,
                                        tupleHeaderSize + bitmapBytes)
                             ELSE FromSeq(<<>>),
                  Data |-> Slice(data, hoff, data.len)]

\* IsVisible that takes every tuple with a set xmax for deleted
IsVisible_xmaxonly(t) == t.XminCommitted /\ t.XmaxInvalid

\* IsVisible checks if tuple is visible (committed and not deleted)
IsVisible(t) == t.XminCommitted /\ (t.XmaxInvalid \/ ~t.XmaxCommitted)

\* IsNull checks if the attribute at position attnum (1-indexed) is null
IsNull(t, attnum) ==
    IF t.BitmapNil \/ attnum <= 0 THEN FALSE
    ELSE LET byteIdx == (attnum - 1) \div 8
             bitIdx == (attnum - 1) % 8
         IN IF byteIdx >= t.Bitmap.len THEN TRUE
            ELSE ~Bit(At(t.Bitmap, byteIdx), bitIdx)

(***************************************************************************)
(* Varlena header recognition (types.go).                                  *)
(***************************************************************************)
NilVarlena(n, h) == [nil |-> TRUE, val |-> FromSeq(<<>>), consumed |-> n, hdr |-> h]

\* ReadVarlena reads a varlena value, returning the payload and the bytes
\* consumed; hdr is the number of header bytes it looked at
ReadVarlena(data) ==
    IF data.len = 0 THEN NilVarlena(0, 0)
    ELSE LET first == At(data, 0)
         IN IF first % 2 = 1 /\ first # 1
            THEN LET totalLen == first \div 2
                 IN IF totalLen <= 1 \/ data.len < totalLen THEN NilVarlena(1, 1)
                    ELSE [nil |-> FALSE, val |-> Slice(data, 1, totalLen),
                          consumed |-> totalLen, hdr |-> 1]
            ELSE IF first = 1 THEN NilVarlena(1, 1)
            ELSE IF data.len < 4 THEN NilVarlena(0, 1)
            ELSE LET header == u32(data, 0)
                     totalLen == header.hi * 16384 + header.lo \div 4
                 IN IF totalLen < 4 \/ data.len < totalLen THEN NilVarlena(4, 4)
                    ELSE [nil |-> FALSE, val |-> Slice(data, 4, totalLen),
                          consumed |-> totalLen, hdr |-> 4]

(***************************************************************************)
(* Row decoder: DecodeTuple and readValue.                                 *)
(***************************************************************************)
\* alignFromChar converts the PostgreSQL alignment char to bytes, 0 if unknown
alignFromChar(c) ==
    CASE c = "c" -> 1
      [] c = "s" -> 2
      [] c = "i" -> 4
      [] c = "d" -> 8
      [] OTHER -> 0

typeAlign(typID, length) ==
    IF typID \in {OidInt8, OidFloat8, OidTimestamp, OidTimestampTZ, OidTime,
                  OidMoney, OidPgLsn, OidPoint, OidLseg, OidBox, OidLine,
                  OidCircle, OidInterval, OidTimeTZ} THEN 8
    ELSE IF typID \in {OidInt4, OidOid, OidFloat4, OidDate, OidXid, OidCid,
                       OidText, OidVarchar, OidBpchar, OidBytea, OidJSON,
                       OidJSONB, OidXML, OidNumeric, OidInet, OidCidr, OidPath,
                       OidPolygon, OidBit, OidVarbit, OidTsvector, OidTsquery,
                       OidJSONPath, OidInt4Range, OidInt8Range, OidNumRange,
                       OidDateRange, OidTsRange, OidTsTzRange} THEN 4
    ELSE IF typID \in {OidInt2, OidTid} THEN 2
    ELSE IF typID \in {OidBool, OidChar, OidName, OidUUID, OidMacaddr,
                       OidMacaddr8} THEN 1
    ELSE IF length = -1 THEN 4
    ELSE IF length >= 8 THEN 8
    ELSE IF length >= 4 THEN 4
    ELSE IF length >= 2 THEN 2
    ELSE 1

\* what readValue returns for a fixed-width value v of the given length
fixedValue(v, length) ==
    [val |-> v, consumed |-> length, touched |-> Max(length, v.used)]

\* what readValue returns for the payload of the varlena rv decoded as v
decodedVarlena(rv, v) ==
    [val |-> v, consumed |-> rv.consumed,
     touched |-> Max(rv.consumed, rv.hdr + v.used)]

\* readValue's varlena branch on the result rv of ReadVarlena
varlenaValue(rv, typID) ==
    IF rv.nil
    THEN [val |-> NilResult, consumed |-> Max(rv.consumed, 1), touched |-> rv.hdr]
    ELSE decodedVarlena(rv, DecodeType(rv.val, typID))

\* readValue's cstring branch: i is the index of the first NUL byte
cstringValue(remaining, i) ==
    [val |-> Val("string", Sub(remaining, 0, i), i),
     consumed |-> Min(i + 1, remaining.len),
     touched |-> Min(i + 1, remaining.len)]

\* readValue's branches on remaining = data[offset:]
remainingValue(remaining, typID, length) ==
    IF length > 0
    THEN IF remaining.len < length
         THEN [val |-> NilResult, consumed |-> 0, touched |-> 0]
         ELSE fixedValue(DecodeType(Slice(remaining, 0, length), typID), length)
    ELSE IF length = -1 THEN varlenaValue(ReadVarlena(remaining), typID)
    ELSE cstringValue(remaining, FirstNul(remaining, 0, remaining.len))

\* readValue reads the value of one column at offset: the decoded value,
\* the bytes consumed, and touched, the number of bytes from offset on that
\* the walker and the type decoder looked at
readValue(data, offset, typID, length) ==
    IF offset >= data.len THEN [val |-> NilResult, consumed |-> 0, touched |-> 0]
    ELSE remainingValue(Slice(data, offset, data.len), typID, length)

\* the alignment DecodeTuple applies to a column
colAlign(col) ==
    IF alignFromChar(col.Align) = 0 THEN typeAlign(col.TypID, col.Len)
    ELSE alignFromChar(col.Align)

\* the step of a null column: the offset stays at the aligned offset
nullStep(offset, at, al) ==
    [null |-> TRUE, before |-> offset, at |-> at, after |-> at, align |-> al,
     val |-> NilResult, consumed |-> 0, touched |-> 0]

\* the step of a column whose value r was read at the aligned offset
valueStep(offset, at, al, r) ==
    [null |-> FALSE, before |-> offset, at |-> at, after |-> at + r.consumed,
     align |-> al, val |-> r.val, consumed |-> r.consumed, touched |-> r.touched]

\* one iteration of DecodeTuple's loop at the aligned offset at
columnAt(tuple, col, num, offset, at) ==
    IF IsNull(tuple, num) THEN nullStep(offset, at, colAlign(col))
    ELSE valueStep(offset, at, colAlign(col),
                   readValue(tuple.Data, at, col.TypID, col.Len))

\* one iteration of DecodeTuple's loop for column idx (1-based) at offset:
\* the step record holds the offset before alignment (before), the offset
\* the column is read at (at), the offset after the column (after), and what
\* was read
decodeColumn(tuple, col, idx, offset) ==
    columnAt(tuple, col, IF col.Num = 0 THEN idx ELSE col.Num, offset,
             align(offset, colAlign(col)))

RECURSIVE decodeColumns(_, _, _, _, _)
\* the rest of DecodeTuple's loop after the step st of column idx
afterColumn(tuple, columns, idx, steps, st) ==
    IF st.val.panic THEN Append(steps, st)
    ELSE decodeColumns(tuple, columns, idx + 1, st.after, Append(steps, st))

decodeColumns(tuple, columns, idx, offset, steps) ==
    IF idx > Len(columns) THEN steps
    ELSE afterColumn(tuple, columns, idx, steps,
                     decodeColumn(tuple, columns[idx], idx, offset))

\* the decoded row: one step per column, cut short by a panic
rowOf(steps) ==
    [nil |-> FALSE,
     panic |-> steps # <<>> /\ steps[Len(steps)].val.panic,
     steps |-> steps]

\* DecodeTuple decodes a tuple using a column schema: nil for a nil tuple or
\* empty data
DecodeTuple(tuple, columns) ==
    IF tuple.nil \/ tuple.Data.len = 0
    THEN [nil |-> TRUE, panic |-> FALSE, steps |-> <<>>]
    ELSE rowOf(decodeColumns(tuple, columns, 1, 0, <<>>))

(***************************************************************************)
(* Specification SpecTuple: ParseHeapTuple and DecodeTuple applied to one  *)
(* tuple image and one column sequence.  The image is a 23-byte header     *)
(* (natts, infomask, hoff = 24), one null-bitmap byte and the user data.   *)
(***************************************************************************)
VARIABLES tp_raw, tp_cols, tp_result, tp_pc

tupleVars == <<tp_raw, tp_cols, tp_result, tp_pc>>

\* the column shapes the schemas are built from: fixed-width columns of
\* every alignment, a varlena text column, a column without an alignment
\* char, a cstring column, and a column whose pg_attribute row declares a
\* varlena length for a fixed-width type
ColShapes ==
    {[Name |-> "b", TypID |-> OidBool, Len |-> 1, Align |-> "c"],
     [Name |-> "i", TypID |-> OidInt4, Len |-> 4, Align |-> "i"],
     [Name |-> "l", TypID |-> OidInt8, Len |-> 8, Align |-> "d"],
     [Name |-> "t", TypID |-> OidText, Len |-> -1, Align |-> "i"],
     [Name |-> "s", TypID |-> OidInt2, Len |-> 2, Align |-> ""],
     [Name |-> "c", TypID |-> OidUnknown, Len |-> -2, Align |-> "c"],
     [Name |-> "g", TypID |-> OidLseg, Len |-> -1, Align |-> "c"]}

ColSeqs ==
    UNION {[1..n -> ColShapes] : n \in 1..MaxCols}

\* the columns as pg_attribute yields them: attnum = position; the column
\* without an alignment char also leaves Num to the positional fallback
MkColumns(shapes) ==
    [i \in 1..Len(shapes) |->
        [Name |-> shapes[i].Name, TypID |-> shapes[i].TypID,
         Len |-> shapes[i].Len, Align |-> shapes[i].Align,
         Num |-> IF shapes[i].Align = "" THEN 0 ELSE i]]

\* first bytes of the user data: no header / long header of length 0, TOAST
\* pointer, short varlena of total length 2, long varlena of total length 6
HeadBytes == {0, 1, 5, 24}

\* lengths of the user data: every length up to MaxData, and two aligned
\* eight-byte words
DataLens == 0..MaxData \cup {16}

FillBytes == {0, 42}

\* the tuple image: natts columns, column nullAt null (0: no null bitmap),
\* user data of n bytes, and slack bytes of backing array behind it
TupleImage(natts, nullAt, h, f, n, slack) ==
    LET bitmap == (2 ^ natts - 1) - (IF nullAt > 0 THEN 2 ^ (nullAt - 1) ELSE 0)
        img == [i \in 1..(24 + n + slack) |->
                  CASE i = 19 -> natts
                    [] i = 21 -> IF nullAt > 0 THEN 1 ELSE 0
                    [] i = 22 -> 9
                    [] i = 23 -> 24
                    [] i = 24 -> IF nullAt > 0 THEN bitmap ELSE 0
                    [] i = 25 -> h
                    [] i > 25 -> f
                    [] OTHER -> 0]
    IN MkSlice(Sparse(img), 24 + n, 24 + n + slack)

\* a tuple written before the last column was added: its header counts
\* one attribute less than the schema declares, with or without a null
\* bitmap
ShortImage(shapes, nullAt, h, n) ==
    TupleImage(Len(shapes) - 1, nullAt, h, 42, n, 0)

InitTuple ==
    /\ \/ \E shapes \in ColSeqs, h \in HeadBytes, f \in FillBytes,
             n \in DataLens, slack \in {0, MaxSlack} :
            \E nullAt \in 0..Len(shapes) :
               /\ tp_cols = MkColumns(shapes)
               /\ tp_raw = TupleImage(Len(shapes), nullAt, h, f, n, slack)
       \/ \E shapes \in ColSeqs, h \in HeadBytes, n \in 1..MaxData,
             nullAt \in {0, 1} :
            /\ Len(shapes) >= 2
            /\ tp_cols = MkColumns(shapes)
            /\ tp_raw = ShortImage(shapes, nullAt, h, n)
    /\ tp_result = [nil |-> TRUE, panic |-> FALSE, steps |-> <<>>]
    /\ tp_pc = "call"

DecodeTupleCall ==
    /\ tp_pc = "call"
    /\ tp_result' = DecodeTuple(ParseHeapTuple(tp_raw), tp_cols)
    /\ tp_pc' = "done"
    /\ UNCHANGED <<tp_raw, tp_cols>>

\* the user data of the tuple under decode
tpData == ParseHeapTuple(tp_raw).Data

(***************************************************************************)
(* Heap pages (page.go).                                                   *)
(***************************************************************************)
PageSize == 8192
headerSize == 24
itemIDSize == 4

\* parseHeader: lower, upper, and the page size / layout version word
parseHeader(data) ==
    LET psv == u16(data, 18).v
    IN [Lower |-> u16(data, 12).v, Upper |-> u16(data, 14).v,
        PageSize |-> psv - (psv % 256), Version |-> psv % 256]

validHeader(h) ==
    /\ h.PageSize \in {8192, 16384, 32768}
    /\ h.Version >= 1 /\ h.Version <= 10
    /\ h.Lower >= headerSize
    /\ h.Upper <= h.PageSize
    /\ h.Lower <= h.Upper

\* the number of iterations of parseItems' loop
\* for off := headerSize; off < lower; off += itemIDSize
itemCount(h) ==
    IF h.Lower <= headerSize THEN 0
    ELSE (h.Lower - headerSize + itemIDSize - 1) \div itemIDSize

\* the line pointer read at byte offset off: offset = raw & 0x7FFF,
\* flags = (raw >> 15) & 3, length = (raw >> 17) & 0x7FFF
itemAt(data, off) ==
    LET raw == u32(data, off)
    IN [ok |-> raw.ok,
        Offset |-> raw.lo % 32768,
        Flags |-> raw.lo \div 32768 + 2 * (raw.hi % 2),
        Length |-> raw.hi \div 2]

\* parseItems: one item per 4-byte stride below lower; a stride the page
\* slice does not hold makes the reader panic
parseItems(data, h) ==
    LET items == [k \in 1..itemCount(h) |->
                     itemAt(data, headerSize + itemIDSize * (k - 1))]
    IN [panic |-> \E k \in 1..itemCount(h) : ~items[k].ok, items |-> items]

\* the items of ParsePage's loop that yield an entry
keepItem(data, h, item) ==
    /\ ~(item.Flags # 1 \/ item.Length <= 0)
    /\ ~(item.Offset < h.Upper \/ item.Offset + item.Length > PageSize)
    /\ ~ParseHeapTuple(Slice(data, item.Offset, item.Offset + item.Length)).nil

RECURSIVE pageEntries(_, _, _, _)
pageEntries(data, h, items, k) ==
    IF k > Len(items) THEN <<>>
    ELSE (IF keepItem(data, h, items[k])
          THEN <<[Tuple |-> ParseHeapTuple(Slice(data, items[k].Offset,
                                      items[k].Offset + items[k].Length)),
                  PageOffset |-> 0,
                  Item |-> items[k], Index |-> k]>>
          ELSE <<>>)
         \o pageEntries(data, h, items, k + 1)

\* ParsePage extracts the tuples of a page; each entry also records the
\* line pointer it came from (Item) and that pointer's position (Index)
ParsePage(data) ==
    IF data.len < PageSize THEN [panic |-> FALSE, entries |-> <<>>]
    ELSE LET h == parseHeader(data)
         IN IF ~validHeader(h) THEN [panic |-> FALSE, entries |-> <<>>]
            ELSE LET its == parseItems(data, h)
                 IN IF its.panic THEN [panic |-> TRUE, entries |-> <<>>]
                    ELSE [panic |-> FALSE,
                          entries |-> pageEntries(data, h, its.items, 1)]

\* the entries of one page that ReadTuples keeps, stamped with the page offset
keptEntries(entries, off, visibleOnly) ==
    LET keep(e) == ~visibleOnly \/ IsVisible(e.Tuple)
        stamp(e) == [e EXCEPT !.PageOffset = off]
        kept == SelectSeq(entries, keep)
    IN [i \in 1..Len(kept) |-> stamp(kept[i])]

RECURSIVE readPages(_, _, _)
readPages(data, off, visibleOnly) ==
    IF off + PageSize > data.len THEN [panic |-> FALSE, entries |-> <<>>]
    ELSE LET page == ParsePage(Slice(data, off, off + PageSize))
         IN IF page.panic THEN [panic |-> TRUE, entries |-> <<>>]
            ELSE LET rest == readPages(data, off + PageSize, visibleOnly)
                 IN [panic |-> rest.panic,
                     entries |-> IF rest.panic THEN <<>>
                                 ELSE keptEntries(page.entries, off, visibleOnly)
                                      \o rest.entries]

\* ReadTuples extracts the tuples of a heap file, page by page
ReadTuples(data, visibleOnly) == readPages(data, 0, visibleOnly)

(***************************************************************************)
(* Specification SpecPage: ReadTuples applied to one heap file of one or   *)
(* two pages; a one-page file may end in a partial page.                   *)
(***************************************************************************)
VARIABLES pg_file, pg_visibleOnly, pg_result, pg_pc

pageVars == <<pg_file, pg_visibleOnly, pg_result, pg_pc>>

\* page headers <<lower, upper, pagesize_version>>: 8196 = 0x2004 declares
\* 8192 bytes and layout 4, 8192 layout 0, 16388 = 0x4004 16384 bytes
Headers ==
    {<<24, 8000, 8196>>, <<26, 8000, 8196>>, <<28, 8000, 8196>>,
     <<32, 8000, 8196>>, <<32, 8050, 8196>>, <<32, 8000, 8192>>,
     <<32, 20, 8196>>, <<28, 8000, 16388>>, <<8200, 8200, 16388>>}

\* line pointers <<offset, flags, length>>: unused, normal ones at the two
\* tuple positions, dead, past the page end, shorter than a tuple header,
\* below upper
LinePointers ==
    {<<0, 0, 0>>, <<8000, 1, 24>>, <<8100, 1, 30>>, <<8000, 3, 24>>,
     <<8180, 1, 24>>, <<8000, 1, 10>>, <<7000, 1, 24>>}

\* high bytes of the infomask of the tuples at 8000 and 8100:
\* 9 = xmin committed + xmax invalid, 5 = xmin and xmax committed,
\* 1 = xmin committed, 13 = all three, 0 = none
Infomasks == {<<9, 0>>, <<5, 1>>, <<1, 13>>}

PageShapes ==
    {[hdr |-> h, lp1 |-> a, lp2 |-> b, masks |-> m] :
        h \in Headers, a \in LinePointers, b \in LinePointers, m \in Infomasks}

\* the pages a two-page file may end with
SecondPages ==
    {[hdr |-> <<32, 8000, 8196>>, lp1 |-> <<8100, 1, 30>>, lp2 |-> <<8000, 1, 24>>,
      masks |-> <<9, 1>>],
     [hdr |-> <<28, 8000, 8196>>, lp1 |-> <<8000, 1, 24>>, lp2 |-> <<0, 0, 0>>,
      masks |-> <<5, 0>>]}

\* the four bytes of a line pointer: offset | flags << 15 | length << 17
lpBytes(lp) ==
    LET lo == lp[1] + (lp[2] % 2) * 32768
        hi == lp[2] \div 2 + 2 * lp[3]
    IN <<lo % 256, lo \div 256, hi % 256, hi \div 256>>

\* the non-zero bytes of a page as <<offset, byte>> cells: header words,
\* two line pointers, and the infomask and hoff of the tuples at 8000, 8100
pageCells(ps) ==
    {<<12, ps.hdr[1] % 256>>, <<13, ps.hdr[1] \div 256>>,
     <<14, ps.hdr[2] % 256>>, <<15, ps.hdr[2] \div 256>>,
     <<18, ps.hdr[3] % 256>>, <<19, ps.hdr[3] \div 256>>,
     <<8021, ps.masks[1]>>, <<8022, 24>>, <<8121, ps.masks[2]>>, <<8122, 24>>}
    \cup {<<23 + k, lpBytes(ps.lp1)[k]>> : k \in 1..4}
    \cup {<<27 + k, lpBytes(ps.lp2)[k]>> : k \in 1..4}

\* the memory map of a page placed at byte offset off of the file
pageMem(ps, off) ==
    LET cells == {c \in pageCells(ps) : c[2] # 0}
    IN [i \in {c[1] + off + 1 : c \in cells} |->
           (CHOOSE c \in cells : c[1] + off + 1 = i)[2]]

FileImages ==
    {MkSlice(pageMem(p, 0), PageSize + tail, PageSize + tail) :
        p \in PageShapes, tail \in {0, 100}}
    \cup {MkSlice(pageMem(p, 0) @@ pageMem(q, PageSize),
                  2 * PageSize, 2 * PageSize) :
            p \in PageShapes, q \in SecondPages}

InitPage ==
    /\ pg_file \in FileImages
    /\ pg_visibleOnly \in BOOLEAN
    /\ pg_result = [panic |-> FALSE, entries |-> <<>>]
    /\ pg_pc = "call"

ReadTuplesCall ==
    /\ pg_pc = "call"
    /\ pg_result' = ReadTuples(pg_file, pg_visibleOnly)
    /\ pg_pc' = "done"
    /\ UNCHANGED <<pg_file, pg_visibleOnly>>

\* the pages of the file under read, and what ParsePage makes of each
pgPageCount == pg_file.len \div PageSize

pgPage(k) == Slice(pg_file, (k - 1) * PageSize, k * PageSize)

pgHeader(k) == parseHeader(pgPage(k))

(***************************************************************************)
(* Dump orchestrator (pgdump.go) and catalog bootstrap (catalog.go).       *)
(* Strings are sequences of one-character strings.  A file is a record     *)
(* [ok, size, rows]: ok says whether the reader can read it, size is its   *)
(* length in bytes and rows what ReadRows (visible tuples only) decodes    *)
(* from it with the schema of its catalog.                                 *)
(***************************************************************************)
HasPrefix(str, prefix) ==
    Len(str) >= Len(prefix) /\ SubSeq(str, 1, Len(prefix)) = prefix

Contains(str, sub) ==
    \E i \in 1..(Len(str) - Len(sub) + 1) : SubSeq(str, i, i + Len(sub) - 1) = sub

LowerOf(c) ==
    CASE c = "A" -> "a" [] c = "P" -> "p" [] c = "S" -> "s" [] c = "U" -> "u"
      [] OTHER -> c

ToLower(str) == [i \in 1..Len(str) |-> LowerOf(str[i])]

\* a file the reader cannot read
MissingFile == [ok |-> FALSE, size |-> 0, rows |-> <<>>]

\* the file under a key of a directory, MissingFile if there is none
FileAt(dir, key) == IF key \in DOMAIN dir THEN dir[key] ELSE MissingFile

\* os.ReadFile: the bytes (here size and rows), or an error and no bytes
ReadFile(file) ==
    IF file.ok THEN [err |-> FALSE, size |-> file.size, rows |-> file.rows]
    ELSE [err |-> TRUE, size |-> 0, rows |-> <<>>]

\* ParsePGDatabase keeps the rows with oid > 0 and a non-empty name
ParsePGDatabase(rows) ==
    SelectSeq(rows, LAMBDA r : r.OID > 0 /\ r.Name # <<>>)

\* ParsePGClass: a map from relfilenode to table info; rows with filenode 0
\* are dropped and a later row replaces an earlier one of the same filenode
RECURSIVE ParsePGClass(_)
ParsePGClass(rows) ==
    IF rows = <<>> THEN <<>>
    ELSE LET r == rows[Len(rows)]
             rest == ParsePGClass(SubSeq(rows, 1, Len(rows) - 1))
         IN IF r.Filenode > 0
            THEN [fn \in DOMAIN rest \cup {r.Filenode} |->
                    IF fn = r.Filenode
                    THEN [OID |-> r.OID, Name |-> r.Name,
                          Filenode |-> r.Filenode, Kind |-> r.Kind]
                    ELSE rest[fn]]
            ELSE rest

\* the rows of one relation sorted by attnum
RECURSIVE SortByNum(_)
SortByNum(attrs) ==
    IF attrs = {} THEN <<>>
    ELSE LET a == CHOOSE x \in attrs : \A y \in attrs : x.Num <= y.Num
         IN <<a>> \o SortByNum(attrs \ {a})

\* ParsePGAttribute: a map from relation OID to its columns sorted by
\* attnum; rows with attrelid 0 or attnum <= 0 are dropped
ParsePGAttribute(rows) ==
    LET good == {i \in DOMAIN rows : rows[i].Relid # 0 /\ rows[i].Num > 0}
        relids == {rows[i].Relid : i \in good}
    IN [relid \in relids |->
          SortByNum({[Name |-> rows[i].Name, TypID |-> rows[i].TypID,
                      Num |-> rows[i].Num, Len |-> rows[i].Len] :
                        i \in {j \in good : rows[j].Relid = relid}})]

\* attrs[info.OID]: the zero value (no columns) for a relation without rows
attrsOf(attrs, oid) == IF oid \in DOMAIN attrs THEN attrs[oid] ELSE <<>>

\* withDefaults: nil options become {SkipSystemTables: true}; options the
\* caller passed are used as they are
NilOptions == [nil |-> TRUE, DatabaseFilter |-> <<>>, TableFilter |-> <<>>,
               ListOnly |-> FALSE, SkipSystemTables |-> FALSE]

withDefaults(opts) ==
    IF opts.nil
    THEN [nil |-> FALSE, DatabaseFilter |-> <<>>, TableFilter |-> <<>>,
          ListOnly |-> FALSE, SkipSystemTables |-> TRUE]
    ELSE opts

\* ReadRows on a heap file with the table's columns: one row per visible
\* tuple, holding the tuple and the names of the columns decoded from it
ReadRows(tuples, cols) ==
    [i \in 1..Len(tuples) |-> [tuple |-> tuples[i],
                                cols |-> [k \in 1..Len(cols) |-> cols[k].Name]]]

\* dumpTable: the table's columns, and its rows unless ListOnly is set or
\* the heap cannot be read or is empty; heaps maps a filenode to its file
dumpTable(filenode, info, attrs, heaps, opts) ==
    LET t == [OID |-> info.OID, Name |-> info.Name, Filenode |-> filenode,
              Kind |-> info.Kind,
              Columns |-> [k \in 1..Len(attrs) |->
                             [Name |-> attrs[k].Name, TypID |-> attrs[k].TypID]],
              Rows |-> <<>>, RowCount |-> 0]
        data == ReadFile(FileAt(heaps, filenode))
    IN IF opts.ListOnly THEN t
       ELSE IF data.err \/ data.size = 0 THEN t
       ELSE [t EXCEPT !.Rows = ReadRows(data.rows, attrs),
                      !.RowCount = Len(data.rows)]

\* the selection without the relkind test
tableSelected_anykind(info, opts) ==
    /\ ~(opts.SkipSystemTables /\ HasPrefix(info.Name, <<"p", "g", "_">>))
    /\ ~(opts.TableFilter # <<>>
         /\ ~Contains(ToLower(info.Name), ToLower(opts.TableFilter)))

\* the condition under which DumpDatabaseFromFiles' loop dumps an entry
tableSelected(info, opts) ==
    /\ ~(info.Kind # "r" /\ info.Kind # "")
    /\ ~(opts.SkipSystemTables /\ HasPrefix(info.Name, <<"p", "g", "_">>))
    /\ ~(opts.TableFilter # <<>>
         /\ ~Contains(ToLower(info.Name), ToLower(opts.TableFilter)))

\* DumpDatabaseFromFiles dumps from pre-read catalog files and a reader.
\* The tables come out in Go's map iteration order, so they form a set.
DumpDatabaseFromFiles(classRows, attrRows, heaps, opts0) ==
    LET opts == withDefaults(opts0)
        tables == ParsePGClass(classRows)
        attrs == ParsePGAttribute(attrRows)
    IN [OID |-> 0, Name |-> <<>>,
        Tables |-> {dumpTable(fn, tables[fn], attrsOf(attrs, tables[fn].OID),
                              heaps, opts) :
                      fn \in {f \in DOMAIN tables : tableSelected(tables[f], opts)}}]

\* the databases DumpDataDir's loop visits, in pg_database order
RECURSIVE dumpDatabases(_, _, _)
dumpDatabases(dbs, fs, opts) ==
    IF dbs = <<>> THEN <<>>
    ELSE LET db == Head(dbs)
             rest == dumpDatabases(Tail(dbs), fs, opts)
             classData == ReadFile(FileAt(fs.class, db.OID))
             attrData == ReadFile(FileAt(fs.attr, db.OID))
             dump == DumpDatabaseFromFiles(classData.rows, attrData.rows,
                                           fs.heap[db.OID], opts)
         IN IF HasPrefix(db.Name, <<"t", "e", "m", "p", "l", "a", "t", "e">>)
            THEN rest
            ELSE IF opts.DatabaseFilter # <<>> /\ db.Name # opts.DatabaseFilter
            THEN rest
            ELSE IF classData.size = 0
            THEN rest
            ELSE <<[dump EXCEPT !.OID = db.OID, !.Name = db.Name]>> \o rest

\* DumpDataDir that gives up when a pg_class file cannot be read
DumpDataDir_strict(fs, opts0) ==
    LET opts == withDefaults(opts0)
        dbData == ReadFile(fs.global)
        dbs == ParsePGDatabase(dbData.rows)
    IN IF dbData.err \/ \E i \in DOMAIN dbs : ~FileAt(fs.class, dbs[i].OID).ok
       THEN [err |-> TRUE, Databases |-> <<>>]
       ELSE [err |-> FALSE, Databases |-> dumpDatabases(dbs, fs, opts)]

\* DumpDataDir dumps all databases of a data directory
DumpDataDir(fs, opts0) ==
    LET opts == withDefaults(opts0)
        dbData == ReadFile(fs.global)
    IN IF dbData.err THEN [err |-> TRUE, Databases |-> <<>>]
       ELSE [err |-> FALSE,
             Databases |-> dumpDatabases(ParsePGDatabase(dbData.rows), fs, opts)]

(***************************************************************************)
(* Specification SpecDump: a data directory whose files become unreadable  *)
(* one by one, DumpDataDir over the directory, and DumpDatabaseFromFiles   *)
(* over the catalog files of one database.                                 *)
(***************************************************************************)
VARIABLES du_content, du_broken, du_opts, du_result, du_dbres, du_pc

dumpVars == <<du_content, du_broken, du_opts, du_result, du_dbres, du_pc>>

File(n, rows) == [ok |-> TRUE, size |-> n, rows |-> rows]

ClassRow(oid, name, fn, kind) ==
    [OID |-> oid, Name |-> name, Filenode |-> fn, Kind |-> kind]

AttrRow(relid, name, typ, num, len) ==
    [Relid |-> relid, Name |-> name, TypID |-> typ, Num |-> num, Len |-> len]

nameTemplate == <<"t", "e", "m", "p", "l", "a", "t", "e", "1">>

nameApp == <<"a", "p", "p">>

\* the data directory: pg_database with a template database, two user
\* databases and a row without OID; database 5 with tables whose names
\* differ in case, a pg_ table, an index, a relation of empty relkind, a
\* relation without filenode and two rows of one filenode; database 6 with
\* two tables, or (emptyClass) with a pg_class file of zero bytes
Content(emptyClass) ==
    [global |-> File(8192, <<[OID |-> 1, Name |-> nameTemplate],
                             [OID |-> 5, Name |-> nameApp],
                             [OID |-> 0, Name |-> <<"x">>],
                             [OID |-> 6, Name |-> <<"u", "s">>]>>),
     class |-> (1 :> File(8192, <<ClassRow(10, <<"t">>, 10, "r")>>)
                @@ 5 :> File(8192, <<ClassRow(99, <<"o", "l", "d">>, 100, "r"),
                                     ClassRow(100, <<"u", "s">>, 100, "r"),
                                     ClassRow(101, <<"U", "s">>, 101, "r"),
                                     ClassRow(102, <<"p", "g", "_", "s">>, 102, "r"),
                                     ClassRow(103, <<"s", "x">>, 103, "i"),
                                     ClassRow(104, <<"a">>, 104, ""),
                                     ClassRow(105, <<"z">>, 0, "r")>>)
                @@ 6 :> IF emptyClass THEN File(0, <<>>)
                        ELSE File(8192, <<ClassRow(200, <<"p", "g", "_", "a">>, 200, "r"),
                                          ClassRow(201, <<"u", "p">>, 201, "r")>>)),
     attr |-> (1 :> File(8192, <<AttrRow(10, <<"c">>, OidInt4, 1, 4)>>)
               @@ 5 :> File(8192, <<AttrRow(100, <<"v">>, OidText, 2, -1),
                                    AttrRow(100, <<"k">>, OidInt4, 1, 4),
                                    AttrRow(100, <<"x", "m", "i", "n">>, OidXid, -2, 4),
                                    AttrRow(0, <<"n">>, OidInt4, 1, 4),
                                    AttrRow(101, <<"k">>, OidInt4, 1, 4),
                                    AttrRow(102, <<"k">>, OidName, 1, 64),
                                    AttrRow(104, <<"k">>, OidBool, 1, 1)>>)
               @@ 6 :> File(8192, <<AttrRow(201, <<"k">>, OidInt8, 1, 8)>>)),
     heap |-> (1 :> (10 :> File(8192, <<"t1">>))
               @@ 5 :> (100 :> File(8192, <<"r1", "r2">>)
                        @@ 101 :> File(8192, <<"r3">>)
                        @@ 102 :> File(8192, <<"r4">>)
                        @@ 104 :> File(0, <<>>))
               @@ 6 :> (200 :> File(8192, <<"r5">>)
                        @@ 201 :> File(8192, <<"r6">>)))]

\* the files that may become unreadable
Paths ==
    {<<"global">>, <<"class", 5>>, <<"attr", 5>>, <<"class", 6>>, <<"attr", 6>>,
     <<"heap", 5, 100>>, <<"heap", 5, 101>>, <<"heap", 5, 102>>,
     <<"heap", 6, 200>>, <<"heap", 6, 201>>}

Unreadable(file, path, broken) ==
    IF path \in broken THEN [file EXCEPT !.ok = FALSE] ELSE file

\* the directory as the reader sees it when the files of broken fail
FileSystem(content, broken) ==
    [global |-> Unreadable(content.global, <<"global">>, broken),
     class |-> [db \in DOMAIN content.class |->
                   Unreadable(content.class[db], <<"class", db>>, broken)],
     attr |-> [db \in DOMAIN content.attr |->
                  Unreadable(content.attr[db], <<"attr", db>>, broken)],
     heap |-> [db \in DOMAIN content.heap |->
                  [fn \in DOMAIN content.heap[db] |->
                      Unreadable(content.heap[db][fn], <<"heap", db, fn>>, broken)]]]

OptionValues ==
    {NilOptions}
    \cup {[nil |-> FALSE, DatabaseFilter |-> d, TableFilter |-> t,
           ListOnly |-> l, SkipSystemTables |-> k] :
            d \in {<<>>, nameApp},
            t \in {<<>>, <<"s">>, <<"U">>, <<"x", "y">>},
            l \in BOOLEAN, k \in BOOLEAN}

NoDump == [err |-> FALSE, Databases |-> <<>>]

NoDbDump == [OID |-> 0, Name |-> <<>>, Tables |-> {}]

InitDump ==
    /\ du_content \in {Content(e) : e \in BOOLEAN}
    /\ du_broken = {}
    /\ du_opts \in OptionValues
    /\ du_result = NoDump
    /\ du_dbres = NoDbDump
    /\ du_pc = "idle"

\* the environment: one more file becomes unreadable
BreakFile ==
    /\ du_pc = "idle"
    /\ Cardinality(du_broken) < MaxBroken
    /\ \E p \in Paths \ du_broken : du_broken' = du_broken \cup {p}
    /\ UNCHANGED <<du_content, du_opts, du_result, du_dbres, du_pc>>

duFS == FileSystem(du_content, du_broken)

DumpDataDirCall ==
    /\ du_pc = "idle"
    /\ du_result' = DumpDataDir(duFS, du_opts)
    /\ du_pc' = "done"
    /\ UNCHANGED <<du_content, du_broken, du_opts, du_dbres>>

\* a caller that has read the two catalog files of database 5 hands them
\* to DumpDatabaseFromFiles with a reader over that database's directory
DumpDatabaseFromFilesCall ==
    /\ du_pc = "idle"
    /\ duFS.class[5].ok /\ duFS.attr[5].ok
    /\ du_dbres' = DumpDatabaseFromFiles(duFS.class[5].rows, duFS.attr[5].rows,
                                         duFS.heap[5], du_opts)
    /\ du_pc' = "dbdone"
    /\ UNCHANGED <<du_content, du_broken, du_opts, du_result>>

(***************************************************************************)
(* Specification SpecVarlena: ReadVarlena applied to one byte slice.       *)
(***************************************************************************)
VARIABLES vl_data, vl_result, vl_pc

varlenaVars == <<vl_data, vl_result, vl_pc>>

\* first bytes: zero, TOAST pointer, short headers of total length 1, 2, 6
\* and 127, long headers (low bits 00) of total length 3, 4, 6 and 10, and
\* a 4-byte header with low bits 10 and the length field 6
VarlenaHeads == {0, 1, 3, 5, 13, 255, 12, 16, 24, 40, 26}

\* the slices: first byte h, second byte b (the second byte of a long
\* header), payload bytes f, n bytes long
VarlenaInputs ==
    {FromSeq([i \in 1..n |-> IF i = 1 THEN h ELSE IF i = 2 THEN b
                              ELSE IF i <= 4 THEN 0 ELSE f]) :
        h \in VarlenaHeads, b \in {0, 1}, f \in FillBytes, n \in 0..(MaxData + 2)}

InitVarlena ==
    /\ vl_data \in VarlenaInputs
    /\ vl_result = NilVarlena(0, 0)
    /\ vl_pc = "call"

ReadVarlenaCall ==
    /\ vl_pc = "call"
    /\ vl_result' = ReadVarlena(vl_data)
    /\ vl_pc' = "done"
    /\ UNCHANGED vl_data

(***************************************************************************)
(* pg_attribute layouts (catalog.go).  A raw pg_attribute row is held as   *)
(* attrelid, attname, atttypid and the four 16-bit words at bytes 72, 74,  *)
(* 76 and 78 of its data: the v16 layout has attlen at 72 and attnum at    *)
(* 74, the v15 layout has attstattarget at 72..75, attlen at 76 and attnum *)
(* at 78.                                                                  *)
(***************************************************************************)
schemaPGAttrV15 == "v15"

schemaPGAttrV16 == "v16"

\* ReadRows(data, schema, true) on pg_attribute: the row as the layout
\* decodes it
attrRowAs(raw, schema) ==
    [Relid |-> raw.Relid, Name |-> raw.Name, TypID |-> raw.TypID,
     Len |-> IF schema = schemaPGAttrV16 THEN raw.w72 ELSE raw.w76,
     Num |-> IF schema = schemaPGAttrV16 THEN raw.w74 ELSE raw.w78]

attrRowsAs(raws, schema) == [i \in 1..Len(raws) |-> attrRowAs(raws[i], schema)]

\* detectAttrSchema that never consults the version
detectAttrSchema_nohint(raws, version) ==
    IF Len(raws) >= 5
       /\ \A i \in 1..5 : attrRowAs(raws[i], schemaPGAttrV16).Num = i
    THEN schemaPGAttrV16
    ELSE schemaPGAttrV15

\* detectAttrSchema: the layout by version, or by trying the v16 layout on
\* the first five rows when the version is below 12 or unknown (0)
detectAttrSchema(raws, version) ==
    IF version >= 16 THEN schemaPGAttrV16
    ELSE IF version >= 12 THEN schemaPGAttrV15
    ELSE IF Len(raws) >= 5
            /\ \A i \in 1..5 : attrRowsAs(raws, schemaPGAttrV16)[i].Num = i
    THEN schemaPGAttrV16
    ELSE schemaPGAttrV15

\* ParsePGAttribute on a raw file: the layout it decoded with and the map
\* from relation OID to columns
ParsePGAttributeData(raws, pgVersion) ==
    [schema |-> detectAttrSchema(raws, pgVersion),
     attrs |-> ParsePGAttribute(attrRowsAs(raws, detectAttrSchema(raws, pgVersion)))]

(***************************************************************************)
(* Specification SpecAttr: ParsePGAttribute applied to one pg_attribute    *)
(* file and one version hint.                                              *)
(***************************************************************************)
VARIABLES at_raws, at_version, at_result, at_pc

attrVars == <<at_raws, at_version, at_result, at_pc>>

\* a file of n rows of relation 100 written in layout lay ("v15", "v16",
\* or "both": a v15 file whose attstattarget words read as 1, 2, 3, ...),
\* whose row k (if any) has the word at byte 74 replaced by d
AttrFile(lay, n, k, d) ==
    [i \in 1..n |->
        [Relid |-> 100, Name |-> <<"c">>, TypID |-> OidInt4,
         w72 |-> IF lay = "v16" THEN 4 ELSE 0,
         w74 |-> IF i = k THEN d ELSE IF lay = "v15" THEN 0 ELSE i,
         w76 |-> IF lay = "v16" THEN 0 ELSE 4,
         w78 |-> IF lay = "v16" THEN 0 ELSE i]]

AttrFiles ==
    {AttrFile(lay, n, k, d) :
        lay \in {"v15", "v16", "both"}, n \in 0..MaxAttrRows,
        k \in 0..MaxAttrRows, d \in {0, 9}}

VersionHints == {0, 11, 12, 15, 16, 17}

InitAttr ==
    /\ at_raws \in AttrFiles
    /\ at_version \in VersionHints
    /\ at_result = [schema |-> "", attrs |-> <<>>]
    /\ at_pc = "call"

ParsePGAttributeCall ==
    /\ at_pc = "call"
    /\ at_result' = ParsePGAttributeData(at_raws, at_version)
    /\ at_pc' = "done"
    /\ UNCHANGED <<at_raws, at_version>>

(***************************************************************************)
(* JSONB decoder (jsonb.go).  A JEntry and the container header are        *)
(* uint32 words, held as two 16-bit halves; the 28-bit value field, the    *)
(* HAS_OFF bit and the type code are read from the halves.                 *)
(***************************************************************************)
\* je & jeOffMask (and header & jbCMask): the low 28 bits
jeVal(je) == (je.hi % 4096) * 65536 + je.lo

\* je & jeHasOff != 0: bit 31
jeHasOffSet(je) == je.hi >= 32768

\* (je & jeTypeMask) >> 28: the type code in bits 28..30
jeType(je) == (je.hi \div 4096) % 8

jeString == 0

jeNumeric == 1

jeBoolFalse == 2

jeBoolTrue == 3

jeNull == 4

jeContainer == 5

\* header & jbFScalar, jbFObject, jbFArray: bits 28, 29, 30
jbIsScalar(h) == (h.hi \div 4096) % 2 = 1

jbIsObject(h) == (h.hi \div 8192) % 2 = 1

jbIsArray(h) == (h.hi \div 16384) % 2 = 1

\* decoded JSON values: a string or numeric keeps its bytes, an array is a
\* sequence of values, an object a function from key bytes to values
JNil == [panic |-> FALSE, kind |-> "nil", val |-> <<>>]

JPanic == [panic |-> TRUE, kind |-> "panic", val |-> <<>>]

JVal(k, v) == [panic |-> FALSE, kind |-> k, val |-> v]

\* endOffset: walk back from idx to the nearest HAS_OFF entry; its value
\* plus the value fields after it, or the sum from the start if none
RECURSIVE endOffset(_, _)
endOffset(entries, idx) ==
    IF idx < 0 THEN 0
    ELSE IF jeHasOffSet(entries[idx + 1]) THEN jeVal(entries[idx + 1])
    ELSE endOffset(entries, idx - 1) + jeVal(entries[idx + 1])

\* totalLen is the end offset of the last entry, 0 without entries
totalLen(entries) ==
    IF Len(entries) = 0 THEN 0 ELSE endOffset(entries, Len(entries) - 1)

\* entryOffLen: start is endOffset of the entry before; the pair is
\* (base + start, val - start) for HAS_OFF and (base + start, val) otherwise
entryOffLen(entries, idx, base) ==
    IF jeHasOffSet(entries[idx + 1])
    THEN [off |-> base + endOffset(entries, idx - 1),
          len |-> jeVal(entries[idx + 1]) - endOffset(entries, idx - 1)]
    ELSE [off |-> base + endOffset(entries, idx - 1),
          len |-> jeVal(entries[idx + 1])]

\* DecodeNumeric: nil under 2 bytes, nil for a long header cut short; the
\* digits are kept as the bytes they are read from
DecodeNumeric(raw) ==
    IF raw.len < 2 THEN JNil
    ELSE IF u16(raw, 0).v >= 32768 THEN JVal("numeric", Bytes(raw))
    ELSE IF raw.len < 8 THEN JNil
    ELSE IF u16(raw, 0).v = 0 THEN JVal("numeric", Bytes(raw))
    ELSE IF raw.len < 8 + u16(raw, 0).v * 2 THEN JNil
    ELSE JVal("numeric", Bytes(raw))

\* the length of a long varlena header: header >> 2
jnLongLen(h) == h.hi * 16384 + h.lo \div 4

\* decodeJNumeric strips the varlena header of the numeric: a 4-byte header
\* when its low two bits are clear, a 1-byte header otherwise; a length the
\* data does not hold leaves the content empty
decodeJNumeric(data) ==
    IF data.len < 4 THEN JNil
    ELSE IF At(data, 0) % 4 = 0
    THEN IF jnLongLen(u32(data, 0)) > 4
            /\ data.len >= jnLongLen(u32(data, 0))
         THEN DecodeNumeric(Slice(data, 4, jnLongLen(u32(data, 0))))
         ELSE DecodeNumeric(FromSeq(<<>>))
    ELSE IF At(data, 0) \div 2 > 1 /\ data.len >= At(data, 0) \div 2
         THEN DecodeNumeric(Slice(data, 1, At(data, 0) \div 2))
         ELSE DecodeNumeric(FromSeq(<<>>))

RECURSIVE ParseJSONB(_)
RECURSIVE decodeJEntry(_, _, _, _)
RECURSIVE arrayFrom(_, _, _, _, _)
RECURSIVE objectFrom(_, _, _, _, _, _)

\* the entries read from the header's entry array
jbEntries(data, n) == [i \in 1..n |-> u32(data, 4 + (i - 1) * 4)]

\* decodeJEntry: a string is data[off:off+length] when off+length is
\* within len(data); a numeric or container is read at the offset aligned up
\* to 4 when the padding is less than the length and the rest is within
\* len(data); anything that does not fit is nil.  A slice expression whose
\* end is below its start panics.
decodeJEntry(data, off, length, je) ==
    IF jeType(je) = jeString
    THEN IF off + length <= data.len
         THEN IF CanSlice(data, off, off + length)
              THEN JVal("string", Sub(data, off, off + length))
              ELSE JPanic
         ELSE JNil
    ELSE IF jeType(je) = jeNumeric
    THEN IF /\ align(off, 4) - off < length
            /\ align(off, 4) + length - (align(off, 4) - off) <= data.len
         THEN decodeJNumeric(Slice(data, align(off, 4), off + length))
         ELSE JNil
    ELSE IF jeType(je) = jeBoolFalse THEN JVal("bool", <<0>>)
    ELSE IF jeType(je) = jeBoolTrue THEN JVal("bool", <<1>>)
    ELSE IF jeType(je) = jeNull THEN JNil
    ELSE IF jeType(je) = jeContainer
    THEN IF /\ align(off, 4) - off < length
            /\ align(off, 4) + length - (align(off, 4) - off) <= data.len
         THEN ParseJSONB(Slice(data, align(off, 4), off + length))
         ELSE JNil
    ELSE JNil

\* the element at index i of an array
arrayElem(data, entries, dataStart, i) ==
    decodeJEntry(data, dataStart + entryOffLen(entries, i, 0).off,
                 entryOffLen(entries, i, 0).len, entries[i + 1])

\* parseJSONBArray from index i on, acc the elements decoded so far
arrayFrom(data, entries, dataStart, i, acc) ==
    IF i >= Len(entries) THEN JVal("array", acc)
    ELSE IF arrayElem(data, entries, dataStart, i).panic THEN JPanic
    ELSE arrayFrom(data, entries, dataStart, i + 1,
                   Append(acc, arrayElem(data, entries, dataStart, i)))

\* entries[:count] are the elements
parseJSONBArray(data, entries, dataStart, count) ==
    arrayFrom(data, SubSeq(entries, 1, count), dataStart, 0, <<>>)

\* the key at index i: data[dataStart+kOff : dataStart+kOff+kLen] when the
\* end is within len(data), the empty string otherwise
objectKey(data, keys, dataStart, i) ==
    IF dataStart + entryOffLen(keys, i, 0).off + entryOffLen(keys, i, 0).len
           <= data.len
    THEN IF CanSlice(data, dataStart + entryOffLen(keys, i, 0).off,
                     dataStart + entryOffLen(keys, i, 0).off
                               + entryOffLen(keys, i, 0).len)
         THEN [panic |-> FALSE,
               key |-> Sub(data, dataStart + entryOffLen(keys, i, 0).off,
                           dataStart + entryOffLen(keys, i, 0).off
                                     + entryOffLen(keys, i, 0).len)]
         ELSE [panic |-> TRUE, key |-> <<>>]
    ELSE [panic |-> FALSE, key |-> <<>>]

\* the value at index i: its offsets start after all the key bytes
objectValue(data, keys, vals, dataStart, i) ==
    decodeJEntry(data, dataStart + entryOffLen(vals, i, totalLen(keys)).off,
                 entryOffLen(vals, i, totalLen(keys)).len, vals[i + 1])

\* obj[key] = value
putKey(obj, key, value) ==
    [k \in DOMAIN obj \cup {key} |-> IF k = key THEN value ELSE obj[k]]

\* parseJSONBObject from pair i on, acc the pairs decoded so far
objectFrom(data, keys, vals, dataStart, i, acc) ==
    IF i >= Len(keys) THEN JVal("object", acc)
    ELSE IF objectKey(data, keys, dataStart, i).panic THEN JPanic
    ELSE IF objectValue(data, keys, vals, dataStart, i).panic THEN JPanic
    ELSE objectFrom(data, keys, vals, dataStart, i + 1,
                    putKey(acc, objectKey(data, keys, dataStart, i).key,
                           objectValue(data, keys, vals, dataStart, i)))

\* entries[:count] are the keys, entries[count:] the values
parseJSONBObject(data, entries, dataStart, count) ==
    objectFrom(data, SubSeq(entries, 1, count),
               SubSeq(entries, count + 1, Len(entries)), dataStart, 0,
               [k \in {} |-> JNil])

\* a scalar is stored as an array of one element
unwrapScalar(header, result) ==
    IF jbIsScalar(header) /\ result.kind = "array" /\ Len(result.val) = 1
    THEN result.val[1]
    ELSE result

\* ParseJSONB: nil under 4 bytes, without the object or array flag, for a
\* count of 0 or over 10000, or when the entry array does not fit
ParseJSONB(data) ==
    IF data.len < 4 THEN JNil
    ELSE IF ~jbIsObject(u32(data, 0)) /\ ~jbIsArray(u32(data, 0)) THEN JNil
    ELSE IF jeVal(u32(data, 0)) <= 0 \/ jeVal(u32(data, 0)) > 10000
    THEN JNil
    ELSE IF jbIsObject(u32(data, 0))
    THEN IF 4 + jeVal(u32(data, 0)) * 2 * 4 > data.len THEN JNil
         ELSE unwrapScalar(u32(data, 0),
                  parseJSONBObject(data,
                      jbEntries(data, jeVal(u32(data, 0)) * 2),
                      4 + jeVal(u32(data, 0)) * 2 * 4, jeVal(u32(data, 0))))
    ELSE IF 4 + jeVal(u32(data, 0)) * 4 > data.len THEN JNil
         ELSE unwrapScalar(u32(data, 0),
                  parseJSONBArray(data, jbEntries(data, jeVal(u32(data, 0))),
                                  4 + jeVal(u32(data, 0)) * 4,
                                  jeVal(u32(data, 0))))

(***************************************************************************)
(* Specification SpecJsonb: ParseJSONB applied to a container built from a *)
(* header, an entry array and a payload, and entryOffLen applied to an     *)
(* entry array, an index and a base.                                       *)
(***************************************************************************)
VARIABLES jb_data, jb_result, je_entries, je_idx, je_base, je_out, jb_pc

jsonbVars ==
    <<jb_data, jb_result, je_entries, je_idx, je_base, je_out, jb_pc>>

\* a JEntry or header word from its halves
JE(lo, hi) == [ok |-> TRUE, lo |-> lo, hi |-> hi]

\* the four bytes of a little-endian word
jbWord(w) == <<w.lo % 256, w.lo \div 256, w.hi % 256, w.hi \div 256>>

RECURSIVE jbWords(_)
jbWords(ws) ==
    IF ws = <<>> THEN <<>> ELSE jbWord(Head(ws)) \o jbWords(Tail(ws))

\* key entries: strings of length 1 and 2, and a string ending at offset 1
KeyEntries == {JE(1, 0), JE(2, 0), JE(1, 32768)}

\* values of an object: a string of length 1, a string ending at offset 3,
\* true, and a container of 9 bytes
ObjectValueEntries == {JE(1, 0), JE(3, 32768), JE(0, 12288), JE(9, 20480)}

\* elements of an array: strings of length 1 and 9, strings ending at
\* offsets 1 and 4, true, null, a numeric of 4 bytes, a container of 9 bytes
ArrayEntries ==
    {JE(1, 0), JE(9, 0), JE(1, 32768), JE(4, 32768), JE(0, 12288),
     JE(0, 16384), JE(4, 4096), JE(9, 20480)}

\* payloads: none, "ab", the numeric 0 under a short header, "abcd", and
\* the container of the array ["a"]
JsonbPayloads ==
    {<<>>, <<97, 98>>, <<7, 0, 128, 0>>, <<97, 98, 99, 100>>,
     <<1, 0, 0, 64, 1, 0, 0, 0, 97>>}

\* header flag halves: none, scalar, array, scalar array
ArrayFlags == {0, 4096, 16384, 20480}

\* header, entries and payload, the last cut bytes missing
JsonbContainer(flags, count, entries, payload, cut) ==
    SubSeq(jbWord(JE(count, flags)) \o jbWords(entries) \o payload, 1,
           4 + 4 * Len(entries) + Len(payload) - cut)

JsonbObjects ==
    UNION {{JsonbContainer(8192, n, ks \o vs, p, 0) :
               ks \in [1..n -> KeyEntries],
               vs \in [1..n -> ObjectValueEntries], p \in JsonbPayloads} :
           n \in 0..MaxJsonCount}

JsonbArrays ==
    UNION {{JsonbContainer(f, n, es, p, 0) :
               f \in ArrayFlags, es \in [1..n -> ArrayEntries],
               p \in JsonbPayloads} :
           n \in 0..MaxJsonCount}

\* containers cut short: inside the header and inside the entry array
JsonbCut ==
    {JsonbContainer(f, 1, <<JE(1, 0)>>, <<>>, c) :
        f \in {8192, 16384}, c \in 1..8}

JsonbInputs == JsonbObjects \cup JsonbArrays \cup JsonbCut

\* entry arrays for entryOffLen: lengths 3, 5, 7 and end offsets 2, 10
OffLenEntries == {JE(3, 0), JE(5, 0), JE(7, 0), JE(2, 32768), JE(10, 32768)}

OffLenInputs ==
    UNION {[1..n -> OffLenEntries] : n \in 1..(MaxJsonCount + 1)}

OffLenBases == {0, 4}

InitJsonb ==
    /\ jb_pc = "ready"
    /\ jb_result = JNil
    /\ je_out = [off |-> 0, len |-> 0]
    /\ \/ /\ jb_data \in {FromSeq(s) : s \in JsonbInputs}
          /\ je_entries = <<>> /\ je_idx = 0 /\ je_base = 0
       \/ /\ jb_data = FromSeq(<<>>)
          /\ je_entries \in OffLenInputs
          /\ je_idx \in 0..MaxJsonCount
          /\ je_idx < Len(je_entries)
          /\ je_base \in OffLenBases

\* ParseJSONB(data)
ParseJSONBCall ==
    /\ jb_pc = "ready" /\ je_entries = <<>>
    /\ jb_result' = ParseJSONB(jb_data)
    /\ jb_pc' = "parsed"
    /\ UNCHANGED <<jb_data, je_entries, je_idx, je_base, je_out>>

\* entryOffLen(entries, idx, base)
EntryOffLenCall ==
    /\ jb_pc = "ready" /\ je_entries # <<>>
    /\ je_out' = entryOffLen(je_entries, je_idx, je_base)
    /\ jb_pc' = "resolved"
    /\ UNCHANGED <<jb_data, jb_result, je_entries, je_idx, je_base>>

(***************************************************************************)
(* Range decoder (pgdump.go).  The result string is held by its parts: the *)
(* form ("empty", "bounds", "unread" for "[?,?]", "hex" for the dump of an *)
(* unsupported range), the two brackets, and each bound as blank, as the   *)
(* decoded element, or as the "?" of an element that is not decoded.       *)
(***************************************************************************)
rangeEmpty(flags) == flags % 2 = 1

rangeLbInc(flags) == (flags \div 2) % 2 = 1

rangeUbInc(flags) == (flags \div 4) % 2 = 1

rangeLbInf(flags) == (flags \div 8) % 2 = 1

rangeUbInf(flags) == (flags \div 16) % 2 = 1

RangeEmptyText == [form |-> "empty"]

RangeUnread == [form |-> "unread"]

RangeHex(data) == [form |-> "hex", bytes |-> Bytes(data)]

BlankBound == [kind |-> "blank", val |-> <<>>]

UnknownBound == [kind |-> "?", val |-> <<>>]

\* fmt.Sprintf("%v", v) of a decoded element
ValueBound(v) == [kind |-> v.kind, val |-> v.val]

RangeText(flags, lb, ub) ==
    [form |-> "bounds",
     open |-> IF rangeLbInc(flags) THEN "[" ELSE "(",
     lb |-> lb, ub |-> ub,
     close |-> IF rangeUbInc(flags) THEN "]" ELSE ")"]

\* the element type of a range type
rangeElemOid(oid) ==
    CASE oid = OidInt4Range -> OidInt4
      [] oid = OidInt8Range -> OidInt8
      [] oid = OidDateRange -> OidDate
      [] oid = OidTsRange -> OidTimestamp
      [] oid = OidTsTzRange -> OidTimestampTZ

rangeElemSize(oid) == IF oid \in {OidInt4Range, OidDateRange} THEN 4 ELSE 8

\* decodeNumericRange prints the brackets and "?" for every finite bound
decodeNumericRange(data, flags) ==
    RangeText(flags,
              IF rangeLbInf(flags) THEN BlankBound ELSE UnknownBound,
              IF rangeUbInf(flags) THEN BlankBound ELSE UnknownBound)

\* the offset the upper bound is read at: after the lower bound if there is
\* one, then aligned to the element size
rangeUpperOffset(flags, elemSize) ==
    IF elemSize > 1
    THEN align(IF rangeLbInf(flags) THEN 4 ELSE 4 + elemSize, elemSize)
    ELSE IF rangeLbInf(flags) THEN 4 ELSE 4 + elemSize

\* the bounds of a fixed-width range: the lower bound at offset 4, the
\* upper bound at rangeUpperOffset, "[?,?]" when either runs into the flags
rangeBounds(data, oid, flags, elemSize) ==
    IF ~rangeLbInf(flags) /\ 4 + elemSize > data.len - 1 THEN RangeUnread
    ELSE IF ~rangeUbInf(flags)
            /\ rangeUpperOffset(flags, elemSize) + elemSize > data.len - 1
    THEN RangeUnread
    ELSE RangeText(flags,
             IF rangeLbInf(flags) THEN BlankBound
             ELSE ValueBound(DecodeType(Slice(data, 4, 4 + elemSize),
                                        rangeElemOid(oid))),
             IF rangeUbInf(flags) THEN BlankBound
             ELSE ValueBound(DecodeType(
                      Slice(data, rangeUpperOffset(flags, elemSize),
                            rangeUpperOffset(flags, elemSize) + elemSize),
                      rangeElemOid(oid))))

decodeRange(data, oid) ==
    IF data.len < 5 THEN RangeEmptyText
    ELSE IF rangeEmpty(At(data, data.len - 1)) THEN RangeEmptyText
    ELSE IF oid = OidNumRange
    THEN decodeNumericRange(data, At(data, data.len - 1))
    ELSE IF oid \in {OidInt4Range, OidInt8Range, OidDateRange, OidTsRange,
                     OidTsTzRange}
    THEN rangeBounds(data, oid, At(data, data.len - 1), rangeElemSize(oid))
    ELSE RangeHex(data)

(***************************************************************************)
(* Specification SpecRange: decodeRange applied to a range value of a      *)
(* supported range type: the range OID, the bounds the flags announce, the *)
(* flags byte; or to such a value with bytes missing before the flags.     *)
(***************************************************************************)
VARIABLES rg_data, rg_oid, rg_result, rg_pc

rangeVars == <<rg_data, rg_oid, rg_result, rg_pc>>

RangeOids ==
    {OidInt4Range, OidInt8Range, OidNumRange, OidTsRange, OidTsTzRange,
     OidDateRange}

\* bounds as stored: 4-byte and 8-byte integers, and numerics under a
\* 1-byte varlena header (the values 0 and 1)
RangeElems(oid) ==
    IF oid \in {OidInt4Range, OidDateRange}
    THEN {<<1, 0, 0, 0>>, <<10, 0, 0, 0>>, <<255, 255, 255, 255>>}
    ELSE IF oid = OidNumRange
    THEN {<<7, 0, 128>>, <<11, 0, 128, 1, 0>>}
    ELSE {<<1, 0, 0, 0, 0, 0, 0, 0>>, <<10, 0, 0, 0, 0, 0, 0, 0>>}

RangeFlags == 0..31

\* [range_oid][lb?][ub?][flags], the last cut bytes before the flags missing
RangeValue(oid, flags, lb, ub, cut) ==
    SubSeq(jbWord([lo |-> oid, hi |-> 0])
           \o (IF rangeEmpty(flags) \/ rangeLbInf(flags) THEN <<>> ELSE lb)
           \o (IF rangeEmpty(flags) \/ rangeUbInf(flags) THEN <<>> ELSE ub),
           1,
           4 + (IF rangeEmpty(flags) \/ rangeLbInf(flags) THEN 0 ELSE Len(lb))
             + (IF rangeEmpty(flags) \/ rangeUbInf(flags) THEN 0 ELSE Len(ub))
             - cut)
    \o <<flags>>

InitRange ==
    /\ rg_oid \in RangeOids
    /\ \E f \in RangeFlags, lb \in RangeElems(rg_oid),
          ub \in RangeElems(rg_oid), cut \in 0..MaxRangeCut :
           /\ cut <= Len(RangeValue(rg_oid, f, lb, ub, 0)) - 1
           /\ rg_data = FromSeq(RangeValue(rg_oid, f, lb, ub, cut))
    /\ rg_result = RangeEmptyText
    /\ rg_pc = "call"

\* decodeRange(data, oid)
DecodeRangeCall ==
    /\ rg_pc = "call"
    /\ rg_result' = decodeRange(rg_data, rg_oid)
    /\ rg_pc' = "done"
    /\ UNCHANGED <<rg_data, rg_oid>>

(***************************************************************************)
(* Dropped-column recovery (dropped.go).  A pg_attribute row decoded with  *)
(* the extended schema holds attrelid, attname, atttypid, attlen, attnum,  *)
(* attalign and attisdropped.  A name is a tuple: a plain name is a single *)
(* string, and fmt.Sprintf("dropped_%d", n) is the pair of the prefix and  *)
(* the number.                                                             *)
(***************************************************************************)
droppedName(attnum) == <<"dropped_", attnum>>

\* the DroppedColumnInfo parseAllAttributes builds from one row
columnInfo(row) ==
    [RelOID |-> row.attrelid, AttNum |-> row.attnum,
     DroppedName |-> row.attname,
     OriginalName |-> IF row.attisdropped THEN droppedName(row.attnum)
                      ELSE row.attname,
     TypeOID |-> row.atttypid, AttLen |-> row.attlen,
     AttAlign |-> row.attalign]

\* sort.Slice by AttNum
RECURSIVE SortByAttNum(_)
SortByAttNum(attrs) ==
    IF attrs = {} THEN <<>>
    ELSE <<CHOOSE x \in attrs : \A y \in attrs : x.AttNum <= y.AttNum>>
         \o SortByAttNum(attrs \ {CHOOSE x \in attrs :
                                     \A y \in attrs : x.AttNum <= y.AttNum})

\* parseAllAttributes: the rows of relation relOID with attnum > 0, sorted
\* by attnum
parseAllAttributes(rows, relOID) ==
    SortByAttNum({columnInfo(rows[i]) :
                     i \in {j \in DOMAIN rows : /\ rows[j].attrelid = relOID
                                                /\ rows[j].attnum > 0}})

\* buildColumnsWithDropped: one Column per attribute, an empty name
\* replaced by dropped_<attnum>
buildColumnsWithDropped(attrs) ==
    [i \in DOMAIN attrs |->
        [Name |-> IF attrs[i].OriginalName = <<"">>
                  THEN droppedName(attrs[i].AttNum)
                  ELSE attrs[i].OriginalName,
         TypID |-> attrs[i].TypeOID, Len |-> attrs[i].AttLen,
         Num |-> attrs[i].AttNum, Align |-> attrs[i].AttAlign]]

\* result[col.Name] of a decoded row: the value of the last column of that
\* name; absent names are not in the map
rowValue(cols, steps, name) ==
    steps[CHOOSE i \in DOMAIN steps :
             /\ cols[i].Name = name
             /\ \A j \in DOMAIN steps : cols[j].Name = name => j <= i].val

rowNames(cols, steps) == {cols[i].Name : i \in DOMAIN steps}

(***************************************************************************)
(* Specification SpecDropped: RecoverDroppedColumnData on the pg_attribute *)
(* rows of a table with up to MaxSlots slots, at most one of them dropped, *)
(* and one tuple of the table: the decode schema is built, then the tuple  *)
(* is decoded with it.  The user data is 16 bytes: a first byte 5 (short   *)
(* varlena of 2 bytes) or 24 (long varlena of 6 bytes over zeros), then    *)
(* zeros or sevens (short varlenas of 3 bytes).                            *)
(***************************************************************************)
VARIABLES dr_rows, dr_raw, dr_cols, dr_result, dr_pc

droppedVars == <<dr_rows, dr_raw, dr_cols, dr_result, dr_pc>>

\* the relation under recovery and another relation of the catalog
RecoveredRel == 16384

OtherRel == 16390

\* slot shapes: bool, int4 and text
SlotShapes ==
    {[typid |-> OidBool, len |-> 1, align |-> "c"],
     [typid |-> OidInt4, len |-> 4, align |-> "i"],
     [typid |-> OidText, len |-> -1, align |-> "i"]}

\* the pg_attribute row of slot i: a dropped slot has its name replaced and
\* its type zeroed, and keeps attlen and attalign
SlotRow(shape, i, dropped) ==
    [attrelid |-> RecoveredRel, attnum |-> i,
     attname |-> IF dropped THEN <<"pg.dropped">> ELSE <<"col", i>>,
     atttypid |-> IF dropped THEN 0 ELSE shape.typid,
     attlen |-> shape.len, attalign |-> shape.align,
     attisdropped |-> dropped]

\* rows that do not belong to the schema: a system column of the relation
\* and a column of the other relation
ForeignRows ==
    <<[attrelid |-> RecoveredRel, attnum |-> -1, attname |-> <<"ctid">>,
       atttypid |-> OidTid, attlen |-> 6, attalign |-> "s",
       attisdropped |-> FALSE],
      [attrelid |-> OtherRel, attnum |-> 1, attname |-> <<"x">>,
       atttypid |-> OidInt8, attlen |-> 8, attalign |-> "d",
       attisdropped |-> FALSE]>>

\* the rows of the slots in attnum order or in reverse, among the others
AttrRowsOf(shapes, d, reversed) ==
    LET n == Len(shapes)
        slots == [i \in 1..n |->
                    SlotRow(shapes[IF reversed THEN n + 1 - i ELSE i],
                            IF reversed THEN n + 1 - i ELSE i,
                            d = (IF reversed THEN n + 1 - i ELSE i))]
    IN <<ForeignRows[1]>> \o slots \o <<ForeignRows[2]>>

InitDropped ==
    /\ \E n \in 1..MaxSlots :
         \E shapes \in [1..n -> SlotShapes], d \in 0..n,
            reversed \in BOOLEAN, nullAt \in 0..n, h \in {5, 24},
            f \in {0, 7} :
            /\ dr_rows = AttrRowsOf(shapes, d, reversed)
            /\ dr_raw = TupleImage(n, nullAt, h, f, 16, 0)
    /\ dr_cols = <<>>
    /\ dr_result = [nil |-> TRUE, panic |-> FALSE, steps |-> <<>>]
    /\ dr_pc = "schema"

\* cols := buildColumnsWithDropped(parseAllAttributes(attrData, OID))
BuildColumnsCall ==
    /\ dr_pc = "schema"
    /\ dr_cols' = buildColumnsWithDropped(
                      parseAllAttributes(dr_rows, RecoveredRel))
    /\ dr_pc' = "rows"
    /\ UNCHANGED <<dr_rows, dr_raw, dr_result>>

\* rows := ReadRows(tableData, cols, true), for one tuple of the table
RecoverRowCall ==
    /\ dr_pc = "rows"
    /\ dr_result' = DecodeTuple(ParseHeapTuple(dr_raw), dr_cols)
    /\ dr_pc' = "done"
    /\ UNCHANGED <<dr_rows, dr_raw, dr_cols>>

(***************************************************************************)
(* Remote facade (remote.go).  A client is its cache and the count of the  *)
(* reader's invocations per path; every operation takes the client and the *)
(* directory the reader reads, and returns the client after the call and   *)
(* the value handed to the caller.  A nil slice and an empty slice are     *)
(* both the empty sequence, a nil map and an empty map the empty function. *)
(***************************************************************************)
\* c := &RemoteClient{...}: no database list, no catalog loaded; the read
\* of PG_VERSION is not counted and the version is that of the catalog rows
NewRemoteClient ==
    [cache |-> [databases |-> <<>>, tables |-> <<>>, columns |-> <<>>],
     reads |-> <<>>]

\* one more invocation of the reader for the path
Invoked(reads, path) ==
    IF path \in DOMAIN reads THEN [reads EXCEPT ![path] = @ + 1]
    ELSE reads @@ (path :> 1)

\* m[key] = value
MapPut(m, key, value) ==
    [k \in DOMAIN m \cup {key} |-> IF k = key THEN value ELSE m[k]]

\* Databases: the cached list if it is not nil; otherwise the reader is
\* invoked and the parsed list is cached when the read succeeds
rcDatabases(c, fs) ==
    IF c.cache.databases # <<>> THEN c
    ELSE [cache |-> IF ReadFile(fs.global).err THEN c.cache
                    ELSE [c.cache EXCEPT
                            !.databases =
                                ParsePGDatabase(ReadFile(fs.global).rows)],
          reads |-> Invoked(c.reads, <<"global">>)]

\* loadCatalog when the database has no cached entry: empty maps if
\* pg_class cannot be read, the parsed pg_class and empty columns if
\* pg_attribute cannot be read, both parsed otherwise
loadedCatalog(c, db, classData, attrData) ==
    IF classData.err
    THEN [cache |-> [c.cache EXCEPT !.tables = MapPut(@, db, <<>>),
                                    !.columns = MapPut(@, db, <<>>)],
          reads |-> Invoked(c.reads, <<"class", db>>)]
    ELSE [cache |-> [c.cache EXCEPT
                       !.tables = MapPut(@, db, ParsePGClass(classData.rows)),
                       !.columns =
                           MapPut(@, db,
                                  IF attrData.err THEN <<>>
                                  ELSE ParsePGAttribute(attrData.rows))],
          reads |-> Invoked(Invoked(c.reads, <<"class", db>>),
                            <<"attr", db>>)]

\* loadCatalog loads pg_class and pg_attribute of a database once
loadCatalog(c, fs, db) ==
    IF db \in DOMAIN c.cache.tables THEN c
    ELSE loadedCatalog(c, db, ReadFile(FileAt(fs.class, db)),
                       ReadFile(FileAt(fs.attr, db)))

\* the tables of a loaded database, in no order
cachedTables(c, db) ==
    {c.cache.tables[db][fn] : fn \in DOMAIN c.cache.tables[db]}

\* c.cache.columns[dbOID][tableOID]
cachedColumns(c, db, oid) == attrsOf(c.cache.columns[db], oid)

\* the heap file of a table
heapFile(fs, db, fn) ==
    IF db \in DOMAIN fs.heap THEN FileAt(fs.heap[db], fn) ELSE MissingFile

\* Query after the heap file was read: nil on a read error, the decoded
\* rows otherwise
queried(c, fs, db, table, data) ==
    IF data.err
    THEN [c |-> [c EXCEPT !.reads =
                     Invoked(@, <<"heap", db, table.Filenode>>)],
          rows |-> <<>>]
    ELSE [c |-> loadCatalog([c EXCEPT !.reads =
                                Invoked(@, <<"heap", db, table.Filenode>>)],
                            fs, db),
          rows |-> ReadRows(data.rows,
                       cachedColumns(
                           loadCatalog(c, fs, db), db, table.OID))]

\* Query with nil options: nil for a table without filenode
rcQuery(c, fs, db, table) ==
    IF table.Filenode = 0 THEN [c |-> c, rows |-> <<>>]
    ELSE queried(c, fs, db, table,
                 ReadFile(heapFile(fs, db, table.Filenode)))

\* the TableDump of a table with the rows Query gave
tableDump(c, db, table, rows) ==
    [OID |-> table.OID, Name |-> table.Name, Filenode |-> table.Filenode,
     Kind |-> table.Kind,
     Columns |-> [k \in 1..Len(cachedColumns(c, db, table.OID)) |->
                    [Name |-> cachedColumns(c, db, table.OID)[k].Name,
                     TypID |-> cachedColumns(c, db, table.OID)[k].TypID]],
     Rows |-> rows, RowCount |-> Len(rows)]

\* DumpTable after Query: Columns loads the catalog if Query did not
dumpedTable(c, db, table, rows) ==
    [c |-> c, td |-> tableDump(c, db, table, rows)]

rcDumpTable(c, fs, db, table) ==
    dumpedTable(loadCatalog(rcQuery(c, fs, db, table).c, fs, db), db, table,
                rcQuery(c, fs, db, table).rows)

\* the tables DumpDatabase's loop passes over
tableSkipped(table) ==
    \/ HasPrefix(table.Name, <<"p", "g", "_">>)
    \/ HasPrefix(table.Name, <<"s", "q", "l", "_">>)

\* DumpDatabase's loop over the tables todo: a table is kept when its dump
\* has rows
RECURSIVE dumpTables(_, _, _, _, _)
dumpTablesStep(c, fs, db, todo, acc, t, r) ==
    dumpTables(r.c, fs, db, todo \ {t},
               IF Len(r.td.Rows) > 0 THEN acc \cup {r.td} ELSE acc)

dumpTables(c, fs, db, todo, acc) ==
    IF todo = {} THEN [c |-> c, tables |-> acc]
    ELSE IF tableSkipped(CHOOSE t \in todo : TRUE)
    THEN dumpTables(c, fs, db, todo \ {CHOOSE t \in todo : TRUE}, acc)
    ELSE dumpTablesStep(c, fs, db, todo, acc, CHOOSE t \in todo : TRUE,
                        rcDumpTable(c, fs, db, CHOOSE t \in todo : TRUE))

\* findDB: the database of the list with the OID
foundDB(c, db) ==
    {i \in DOMAIN c.cache.databases : c.cache.databases[i].OID = db}

\* DumpDatabase once the list of databases is at hand
dumpDatabaseOf(c, fs, db, name, r) ==
    [c |-> r.c, nil |-> FALSE,
     dump |-> [OID |-> db, Name |-> name, Tables |-> r.tables]]

dumpDatabaseIn(c, fs, db) ==
    IF foundDB(c, db) = {} THEN [c |-> c, nil |-> TRUE, dump |-> <<>>]
    ELSE dumpDatabaseOf(c, fs, db,
             c.cache.databases[CHOOSE i \in foundDB(c, db) :
                                  \A j \in foundDB(c, db) : i <= j].Name,
             dumpTables(loadCatalog(c, fs, db), fs, db,
                        cachedTables(loadCatalog(c, fs, db), db), {}))

\* DumpDatabase dumps all user tables of a database, nil if findDB does
\* not find it
rcDumpDatabase(c, fs, db) == dumpDatabaseIn(rcDatabases(c, fs), fs, db)

\* DumpAll's loop over the database list dbs
RECURSIVE dumpAllFrom(_, _, _, _)
dumpAllStep(fs, dbs, acc, r) ==
    dumpAllFrom(r.c, fs, Tail(dbs),
                IF r.nil THEN acc ELSE Append(acc, r.dump))

dumpAllFrom(c, fs, dbs, acc) ==
    IF dbs = <<>> THEN [c |-> c, result |-> [Databases |-> acc]]
    ELSE IF HasPrefix(Head(dbs).Name,
                      <<"t", "e", "m", "p", "l", "a", "t", "e">>)
    THEN dumpAllFrom(c, fs, Tail(dbs), acc)
    ELSE dumpAllStep(fs, dbs, acc, rcDumpDatabase(c, fs, Head(dbs).OID))

\* DumpAll dumps every database but the templates
rcDumpAll(c, fs) ==
    dumpAllFrom(rcDatabases(c, fs), fs, rcDatabases(c, fs).cache.databases,
                <<>>)

(***************************************************************************)
(* Specification SpecRemote: one RemoteClient over a data directory whose  *)
(* files become unreadable and readable again between the calls, and up to *)
(* MaxCalls facade calls: Databases, Tables, Query and DumpAll.            *)
(***************************************************************************)
VARIABLES rc_broken, rc_client, rc_op, rc_pre, rc_out, rc_calls

remoteVars == <<rc_broken, rc_client, rc_op, rc_pre, rc_out, rc_calls>>

\* the data directory of SpecDump, with a file for the index of database 5
RemoteContent ==
    [Content(FALSE) EXCEPT
        !.heap[5] = @ @@ (103 :> File(8192, <<"i1">>))]

\* the files that fail in this specification
RemotePaths ==
    {<<"global">>, <<"class", 5>>, <<"attr", 5>>, <<"heap", 5, 100>>}

rcFS == FileSystem(RemoteContent, rc_broken)

\* the tables a caller queries: a table with rows and one with an empty heap
QueriedTables ==
    {[OID |-> 100, Name |-> <<"u", "s">>, Filenode |-> 100, Kind |-> "r"],
     [OID |-> 104, Name |-> <<"a">>, Filenode |-> 104, Kind |-> ""]}

NoOp == [name |-> "none", db |-> 0, table |-> <<>>]

\* the client after a facade operation and the value the caller receives
Facade(op, c, fs) ==
    CASE op.name = "Databases" ->
            [c |-> rcDatabases(c, fs),
             out |-> rcDatabases(c, fs).cache.databases]
      [] op.name = "Tables" ->
            [c |-> loadCatalog(c, fs, op.db),
             out |-> cachedTables(loadCatalog(c, fs, op.db), op.db)]
      [] op.name = "Query" ->
            [c |-> rcQuery(c, fs, op.db, op.table).c,
             out |-> rcQuery(c, fs, op.db, op.table).rows]
      [] op.name = "DumpAll" ->
            [c |-> rcDumpAll(c, fs).c, out |-> rcDumpAll(c, fs).result]

InitRemote ==
    /\ rc_broken = {}
    /\ rc_client = NewRemoteClient
    /\ rc_op = NoOp
    /\ rc_pre = NewRemoteClient
    /\ rc_out = <<>>
    /\ rc_calls = 0

\* the environment: a file becomes unreadable
RemoteBreak ==
    /\ Cardinality(rc_broken) < MaxBroken
    /\ \E p \in RemotePaths \ rc_broken : rc_broken' = rc_broken \cup {p}
    /\ UNCHANGED <<rc_client, rc_op, rc_pre, rc_out, rc_calls>>

\* the environment: an unreadable file becomes readable again
RemoteRepair ==
    /\ \E p \in rc_broken : rc_broken' = rc_broken \ {p}
    /\ UNCHANGED <<rc_client, rc_op, rc_pre, rc_out, rc_calls>>

\* a facade call by the caller
Call(op) ==
    /\ rc_calls < MaxCalls
    /\ rc_calls' = rc_calls + 1
    /\ rc_op' = op
    /\ rc_pre' = rc_client
    /\ rc_client' = Facade(op, rc_client, rcFS).c
    /\ rc_out' = Facade(op, rc_client, rcFS).out
    /\ UNCHANGED rc_broken

DatabasesCall == Call([name |-> "Databases", db |-> 0, table |-> <<>>])

TablesCall == Call([name |-> "Tables", db |-> 5, table |-> <<>>])

QueryCall ==
    \E t \in QueriedTables : Call([name |-> "Query", db |-> 5, table |-> t])

DumpAllCall == Call([name |-> "DumpAll", db |-> 0, table |-> <<>>])

(***************************************************************************)
(* Control file (ParseControlFile and its helpers).  A uint32 is a record  *)
(* [hi, lo] of 16-bit halves.  Of the ControlFile the parser fills, the    *)
(* model keeps the redo LSN, the timeline IDs, the WAL file name and the   *)
(* CRC fields; the configuration and storage sections that                 *)
(* findConfigSection and findStorageSection locate are left out.           *)
(***************************************************************************)
\* the only element of a set of one element
Only(s) == CHOOSE x \in s : TRUE

\* a ^ b on values below 2^16
RECURSIVE xor16(_, _)
xor16(a, b) ==
    IF a = 0 THEN b
    ELSE IF b = 0 THEN a
    ELSE (((a % 2) + (b % 2)) % 2) + 2 * xor16(a \div 2, b \div 2)

\* a ^ b on uint32
xor32(a, b) ==
    Only({[hi |-> xor16(x.hi, y.hi), lo |-> xor16(x.lo, y.lo)] :
             x \in {a}, y \in {b}})

\* a >> n on uint32, n at most 16
shr32(a, n) ==
    [hi |-> a.hi \div (2 ^ n),
     lo |-> (a.lo \div (2 ^ n)) + (a.hi % (2 ^ n)) * (2 ^ (16 - n))]

\* const polynomial uint32 = 0x82F63B78
polynomial == [hi |-> 33526, lo |-> 15224]

\* the inner loop of makeCRC32CTable: j more rounds on crc
RECURSIVE tableRounds(_, _)
tableRounds(crc, j) ==
    IF j = 0 THEN crc
    ELSE tableRounds(IF crc.lo % 2 # 0 THEN xor32(shr32(crc, 1), polynomial)
                     ELSE shr32(crc, 1),
                     j - 1)

\* makeCRC32CTable generates the CRC-32C lookup table
makeCRC32CTable == [i \in 0..255 |-> tableRounds([hi |-> 0, lo |-> i], 8)]

\* crc = table[(crc^uint32(b))&0xFF] ^ (crc >> 8)
crcStep(crc, b) ==
    xor32(makeCRC32CTable[xor16(crc.lo % 256, b)], shr32(crc, 8))

\* the loop of verifyCRC32C over the bytes data[a:b], in order; the range
\* is walked by halves so that the evaluation does not nest once per byte
RECURSIVE crcLoop(_, _, _, _)
crcLoop(data, a, b, crc) ==
    IF b <= a THEN crc
    ELSE IF b = a + 1 THEN crcStep(crc, At(data, a))
    ELSE Only({crcLoop(data, (a + b) \div 2, b, c) :
                  c \in {crcLoop(data, a, (a + b) \div 2, crc)}})

\* verifyCRC32C with the register preset to zero
verifyCRC32C_zeroinit(data, expected) ==
    xor32(crcLoop(data, 0, data.len, [hi |-> 0, lo |-> 0]),
          [hi |-> 65535, lo |-> 65535]) = expected

\* verifyCRC32C verifies a CRC-32C checksum
verifyCRC32C(data, expected) ==
    xor32(crcLoop(data, 0, data.len, [hi |-> 65535, lo |-> 65535]),
          [hi |-> 65535, lo |-> 65535]) = expected

\* the digits of %04X of a value below 2^16
hexDigit(n) ==
    <<"0", "1", "2", "3", "4", "5", "6", "7",
      "8", "9", "A", "B", "C", "D", "E", "F">>[n + 1]

hex16(v) ==
    <<hexDigit(v \div 4096), hexDigit((v \div 256) % 16),
      hexDigit((v \div 16) % 16), hexDigit(v % 16)>>

\* %08X of a uint32
hex32(v) == hex16(v.hi) \o hex16(v.lo)

\* segNo := lsn / segSize with segSize 16 MB: uint32(segNo >> 32) and
\* uint32(segNo) of an LSN given as four 16-bit words, lowest first
segNoHigh(lsn) == [hi |-> 0, lo |-> lsn[4] \div 256]

segNoLow(lsn) ==
    [hi |-> (lsn[3] \div 256) + (lsn[4] % 256) * 256,
     lo |-> (lsn[2] \div 256) + (lsn[3] % 256) * 256]

\* formatWALFilename formats the WAL filename for a given LSN
formatWALFilename(lsn, timeline) ==
    hex32(timeline) \o hex32(segNoHigh(lsn)) \o hex32(segNoLow(lsn))

\* the uint32 at an offset the caller knows to be inside the data
word32(data, off) == [hi |-> u32(data, off).hi, lo |-> u32(data, off).lo]

controlFileMin == 296

crcOffset == 288

NoControlFile ==
    [err |-> TRUE, RedoLSN |-> <<0, 0, 0, 0>>, RedoWALFile |-> <<>>,
     TimeLineID |-> [hi |-> 0, lo |-> 0],
     PrevTimeLineID |-> [hi |-> 0, lo |-> 0],
     CRC |-> [hi |-> 0, lo |-> 0], CRCValid |-> FALSE]

\* ParseControlFile parses a pg_control file: an error below 296 bytes
ParseControlFile(data) ==
    IF data.len < controlFileMin THEN NoControlFile
    ELSE [err |-> FALSE,
          RedoLSN |-> u64(data, 40).w,
          RedoWALFile |-> formatWALFilename(u64(data, 40).w,
                                            [hi |-> 0, lo |-> 1]),
          TimeLineID |-> word32(data, 48),
          PrevTimeLineID |-> word32(data, 52),
          CRC |-> IF data.len > crcOffset + 4 THEN word32(data, crcOffset)
                  ELSE [hi |-> 0, lo |-> 0],
          CRCValid |-> data.len > crcOffset + 4
                       /\ verifyCRC32C(Slice(data, 0, crcOffset),
                                       word32(data, crcOffset))]

(***************************************************************************)
(* Specification SpecControl: ParseControlFile on control files of several *)
(* lengths, with a stored CRC that is the checksum of the first 288 bytes  *)
(* or another word.                                                        *)
(***************************************************************************)
VARIABLES cf_data, cf_result, cf_pc

controlVars == <<cf_data, cf_result, cf_pc>>

\* the CRC-32C of data, as the loop of verifyCRC32C leaves it
crcOf(data) ==
    xor32(crcLoop(data, 0, data.len, [hi |-> 65535, lo |-> 65535]),
          [hi |-> 65535, lo |-> 65535])

\* the lengths of the files: too short, the minimum and above, and a file
\* padded to 8 kB
ControlLens ==
    {0, controlFileMin - 1} \cup (controlFileMin..(controlFileMin + MaxCtlTail))
    \cup {PageSize}

\* the redo LSNs: 0/16000000, 1/0 and 0100000A/2B000000
RedoLSNs == {<<0, 5632, 0, 0>>, <<0, 0, 1, 0>>, <<0, 11008, 10, 256>>}

\* the bytes of a control file but for its CRC word
ControlBody(lsn, tli, first, last, after) ==
    (1 :> first)
    @@ [k \in 41..48 |-> IF k % 2 = 1 THEN lsn[(k - 39) \div 2] % 256
                         ELSE lsn[(k - 40) \div 2] \div 256]
    @@ (49 :> tli) @@ (53 :> 1) @@ (crcOffset :> last)
    @@ (crcOffset + 6 :> after)

\* the bytes of a word at crcOffset
CrcBytes(w) ==
    (crcOffset + 1 :> w.lo % 256) @@ (crcOffset + 2 :> w.lo \div 256)
    @@ (crcOffset + 3 :> w.hi % 256) @@ (crcOffset + 4 :> w.hi \div 256)

\* the stored word: the checksum of the body, the checksum with one bit
\* flipped, or zero
StoredWords(crc) == {crc, xor32(crc, [hi |-> 0, lo |-> 1]), [hi |-> 0, lo |-> 0]}

ControlFileOf(body, w, n) == MkSlice(Sparse(CrcBytes(w) @@ body), n, n)

InitControl ==
    /\ \E lsn \in RedoLSNs, tli \in {1, 2}, first \in {90},
          last \in {0, 1}, after \in {0, 1} :
          \E w \in StoredWords(crcOf(MkSlice(Sparse(
                       ControlBody(lsn, tli, first, last, after)),
                       crcOffset, crcOffset))) :
             \E n \in ControlLens :
                cf_data = ControlFileOf(
                              ControlBody(lsn, tli, first, last, after), w, n)
    /\ cf_result = NoControlFile
    /\ cf_pc = "ready"

ParseControlFileCall ==
    /\ cf_pc = "ready"
    /\ cf_result' = ParseControlFile(cf_data)
    /\ cf_pc' = "done"
    /\ UNCHANGED cf_data

(***************************************************************************)
(* Page checksums (VerifyPageChecksum and its helpers).  The LSNStr field  *)
(* of the result is left out.                                              *)
(***************************************************************************)
\* a uint32 rotated right by s bits, 0 < s < 16
rotr16(c, s) ==
    [hi |-> (c.hi \div (2 ^ s)) + (c.lo % (2 ^ s)) * (2 ^ (16 - s)),
     lo |-> (c.lo \div (2 ^ s)) + (c.hi % (2 ^ s)) * (2 ^ (16 - s))]

\* (checksum >> shift) | (checksum << (32 - shift)), 0 < shift < 32
rotr32(c, shift) ==
    IF shift = 16 THEN [hi |-> c.lo, lo |-> c.hi]
    ELSE IF shift > 16 THEN rotr16([hi |-> c.lo, lo |-> c.hi], shift - 16)
    ELSE rotr16(c, shift)

\* checksumComp: the checksum rotated by its low five bits, then the low
\* half of the value and the high half shifted left by one XORed in
checksumRotated(c) == IF c.lo % 32 > 0 THEN rotr32(c, c.lo % 32) ELSE c

checksumMixed(c, value) ==
    [hi |-> xor16(c.hi, value.hi \div 32768),
     lo |-> xor16(xor16(c.lo, value.lo), (value.hi * 2) % 65536)]

checksumComp(checksum, value) ==
    Only({checksumMixed(checksumRotated(c), value) : c \in {checksum}})

\* pageCopy: the first PageSize bytes of the page with bytes 8 and 9 zero
pageCopyAt(page, i) ==
    IF i = 8 \/ i = 9 \/ i >= page.len THEN 0 ELSE At(page, i)

pageCopyWord(page, i) ==
    [hi |-> pageCopyAt(page, i + 2) + 256 * pageCopyAt(page, i + 3),
     lo |-> pageCopyAt(page, i) + 256 * pageCopyAt(page, i + 1)]

\* the loop of computePageChecksum over the words a..b-1 of the copy, in
\* order; the range is walked by halves
RECURSIVE checksumLoop(_, _, _, _)
checksumLoop(page, a, b, checksum) ==
    IF b <= a THEN checksum
    ELSE IF b = a + 1 THEN checksumComp(checksum, pageCopyWord(page, 4 * a))
    ELSE Only({checksumLoop(page, (a + b) \div 2, b, c) :
                  c \in {checksumLoop(page, a, (a + b) \div 2, checksum)}})

\* checksum ^= blockNumber, then (checksum >> 16) ^ (checksum & 0xFFFF)
checksumFolded(c, blockNumber) ==
    Only({xor16(xor16(x.hi, blockNumber.hi), xor16(x.lo, blockNumber.lo)) :
             x \in {c}})

\* computePageChecksum computes the checksum of a page
computePageChecksum(page, blockNumber) ==
    checksumFolded(checksumLoop(page, 0, PageSize \div 4,
                                [hi |-> 0, lo |-> 0]),
                   blockNumber)

\* isZeroPage checks if a page is all zeros
isZeroPage(page) == \A i \in 0..(page.len - 1) : At(page, i) = 0

checksumResult(blockNumber, stored, computed, valid, lsn) ==
    [BlockNumber |-> blockNumber, StoredChecksum |-> stored,
     ComputedChecksum |-> computed, Valid |-> valid, LSN |-> lsn]

\* VerifyPageChecksum once the checksum is computed
verifiedPage(page, blockNumber, computed) ==
    checksumResult(blockNumber, u16(page, 8).v, computed,
                   u16(page, 8).v = computed, u64(page, 0).w)

\* VerifyPageChecksum verifies a single page's checksum
VerifyPageChecksum(page, blockNumber) ==
    IF page.len < PageSize
    THEN checksumResult(blockNumber, 0, 0, FALSE, <<0, 0, 0, 0>>)
    ELSE IF isZeroPage(page)
    THEN checksumResult(blockNumber, 0, 0, TRUE, <<0, 0, 0, 0>>)
    ELSE verifiedPage(page, blockNumber,
                      computePageChecksum(page, blockNumber))

(***************************************************************************)
(* Specification SpecChecksum: VerifyPageChecksum on pages that hold a few *)
(* non-zero words and a stored checksum, for several block numbers.        *)
(***************************************************************************)
VARIABLES ck_page, ck_block, ck_result, ck_pc

checksumVars == <<ck_page, ck_block, ck_result, ck_pc>>

\* the block numbers: the first blocks and one beyond 16 bits
CkBlocks ==
    {[hi |-> 0, lo |-> b] : b \in 0..MaxCkBlock} \cup {[hi |-> 1, lo |-> 4464]}

\* the words that vary: the low word of the LSN, the first word of the
\* second round of 32 and the last word of the page
CkWordAt == <<0, 32, 2047>>

CkWords == {[hi |-> 0, lo |-> 0], [hi |-> 0, lo |-> 1], [hi |-> 32769, lo |-> 24]}

\* the bytes of the words ws at the positions CkWordAt
CkBody(ws) ==
    [p \in UNION {(4 * CkWordAt[k] + 1)..(4 * CkWordAt[k] + 4) :
                     k \in DOMAIN CkWordAt} |->
        LET k == CHOOSE j \in DOMAIN CkWordAt :
                     p \in (4 * CkWordAt[j] + 1)..(4 * CkWordAt[j] + 4)
            r == p - 4 * CkWordAt[k] - 1
        IN CASE r = 0 -> ws[k].lo % 256
             [] r = 1 -> ws[k].lo \div 256
             [] r = 2 -> ws[k].hi % 256
             [] r = 3 -> ws[k].hi \div 256]

\* the page with the checksum stored at bytes 8 and 9
CkPage(body, stored, n) ==
    MkSlice(Sparse((9 :> stored % 256) @@ (10 :> stored \div 256) @@ body),
            n, n)

\* the stored checksums: none, the one computePageChecksum gives, others
CkStored(body, block) ==
    {0, 4660, computePageChecksum(MkSlice(Sparse(body), PageSize, PageSize),
                                  block)}

InitChecksum ==
    /\ \E ws \in [DOMAIN CkWordAt -> CkWords], block \in CkBlocks :
          \E stored \in CkStored(CkBody(ws), block) :
             \E n \in {PageSize - 1, PageSize} :
                /\ ck_page = CkPage(CkBody(ws), stored, n)
                /\ ck_block = block
    /\ ck_result = checksumResult([hi |-> 0, lo |-> 0], 0, 0, FALSE,
                                  <<0, 0, 0, 0>>)
    /\ ck_pc = "ready"

VerifyPageChecksumCall ==
    /\ ck_pc = "ready"
    /\ ck_result' = VerifyPageChecksum(ck_page, ck_block)
    /\ ck_pc' = "done"
    /\ UNCHANGED <<ck_page, ck_block>>

(***************************************************************************)
(* Index files (ParseIndexFile and its helpers).  An index type is its     *)
(* number in the IndexType enumeration.  Of an IndexPageInfo the model     *)
(* leaves out the strings (TypeString, FlagStrings, LSNStr); a metapage is *)
(* the sequence of the values of its struct, in the order of the fields.   *)
(* A two-index slice expression s[a:b] is checked against the capacity of  *)
(* s, so that it may reach past the length of s into the backing array.    *)
(***************************************************************************)
IndexTypeUnknown == 0

IndexTypeBTree == 1

IndexTypeHash == 2

IndexTypeGiST == 3

IndexTypeGIN == 4

IndexTypeSPGiST == 5

BTMaxCycleID == 65280

BTMetaMagic == [hi |-> 5, lo |-> 12642]

HashoPageID == 65408

GISTPageID == 65409

SPGISTPageID == 65410

\* flags&mask != 0 for a mask of one bit
hasFlag(flags, mask) == (flags \div mask) % 2 = 1

\* binary.LittleEndian.Uint16(s[a:a+2]) and Uint32(s[a:a+4]) once the
\* slice expression is known to be legal
rd16(s, a) == At(s, a) + 256 * At(s, a + 1)

rd32(s, a) == [hi |-> rd16(s, a + 2), lo |-> rd16(s, a)]

rd64(s, a) == <<rd16(s, a), rd16(s, a + 2), rd16(s, a + 4), rd16(s, a + 6)>>

\* s[a:], legal up to the length of s
Rest(s, a) == Slice(s, a, s.len)

\* a / b of Go, which truncates toward zero, b > 0
quot(a, b) == IF a >= 0 THEN a \div b ELSE -((-a) \div b)

\* the BTree test of detectIndexType on a special section of 16 bytes or
\* more: the cycle ID is in range and a page flagged as meta holds the magic
looksBTree(page, specialData) ==
    /\ rd16(specialData, 14) <= BTMaxCycleID
    /\ (hasFlag(rd16(specialData, 12), 8)
           => rd32(page, headerSize) = BTMetaMagic)

\* the GIN test of detectIndexType: one of GINMeta, GINData, GINList
looksGIN(specialData) ==
    \/ hasFlag(rd16(specialData, 6), 8)
    \/ hasFlag(rd16(specialData, 6), 1)
    \/ hasFlag(rd16(specialData, 6), 16)

\* detectIndexType after the test of the special offset
detectedType(page, specialSize, specialData) ==
    IF specialSize >= 2 /\ rd16(page, PageSize - 2) = HashoPageID
    THEN IndexTypeHash
    ELSE IF specialSize >= 2 /\ rd16(page, PageSize - 2) = GISTPageID
    THEN IndexTypeGiST
    ELSE IF specialSize >= 2 /\ rd16(page, PageSize - 2) = SPGISTPageID
    THEN IndexTypeSPGiST
    ELSE IF specialSize >= 16 /\ looksBTree(page, specialData)
    THEN IndexTypeBTree
    ELSE IF specialSize >= 8 /\ looksGIN(specialData)
    THEN IndexTypeGIN
    ELSE IndexTypeUnknown

\* detectIndexType attempts to determine the index type from a page
detectIndexType(page) ==
    IF page.len < PageSize THEN IndexTypeUnknown
    ELSE IF rd16(page, 16) = 0 \/ rd16(page, 16) >= PageSize
    THEN IndexTypeUnknown
    ELSE detectedType(page, PageSize - rd16(page, 16),
                      Rest(page, rd16(page, 16)))

Zero32 == [hi |-> 0, lo |-> 0]

NoMeta == [nil |-> TRUE, panic |-> FALSE, fields |-> <<>>]

MetaPanic == [nil |-> TRUE, panic |-> TRUE, fields |-> <<>>]

MetaOf(fields) == [nil |-> FALSE, panic |-> FALSE, fields |-> fields]

\* parseBTreeMeta parses the BTree metapage
parseBTreeMeta(page) ==
    IF page.len < PageSize \/ rd16(page, 16) >= PageSize THEN NoMeta
    ELSE IF ~CanSlice(page, rd16(page, 16) + 12, rd16(page, 16) + 14)
    THEN MetaPanic
    ELSE IF ~hasFlag(rd16(page, rd16(page, 16) + 12), 8) THEN NoMeta
    ELSE IF rd32(page, headerSize) # BTMetaMagic THEN NoMeta
    ELSE MetaOf([k \in 1..6 |-> rd32(page, headerSize + 4 * (k - 1))])

\* parseHashMeta parses the Hash metapage: Magic, Version, NumBuckets,
\* MaxBucket, HighMask, LowMask, FFactor
parseHashMeta(page) ==
    IF page.len < PageSize \/ rd16(page, 16) >= PageSize THEN NoMeta
    ELSE IF ~CanSlice(page, rd16(page, 16) + 12, rd16(page, 16) + 14)
    THEN MetaPanic
    ELSE IF ~hasFlag(rd16(page, rd16(page, 16) + 12), 8) THEN NoMeta
    ELSE MetaOf(<<rd32(page, headerSize), rd32(page, headerSize + 4),
                  rd32(page, headerSize + 16), rd32(page, headerSize + 8),
                  rd32(page, headerSize + 12), rd32(page, headerSize + 20),
                  rd16(page, headerSize + 24)>>)

\* parseGINMeta parses the GIN metapage
parseGINMeta(page) ==
    IF page.len < PageSize \/ rd16(page, 16) >= PageSize THEN NoMeta
    ELSE IF PageSize - rd16(page, 16) < 8 THEN NoMeta
    ELSE IF ~hasFlag(rd16(page, rd16(page, 16) + 6), 8) THEN NoMeta
    ELSE MetaOf(<<rd32(page, headerSize), rd32(page, headerSize + 4),
                  rd32(page, headerSize + 8), rd32(page, headerSize + 12),
                  rd32(page, headerSize + 16), rd64(page, headerSize + 24),
                  rd32(page, headerSize + 32), rd32(page, headerSize + 36),
                  rd32(page, headerSize + 40), rd64(page, headerSize + 48)>>)

\* the metapage ParseIndexFile parses for the type of the file
parsedMeta(type, page) ==
    CASE type = IndexTypeBTree -> parseBTreeMeta(page)
      [] type = IndexTypeHash -> parseHashMeta(page)
      [] type = IndexTypeGIN -> parseGINMeta(page)
      [] OTHER -> NoMeta

\* IndexPageInfo{PageNumber, IndexType}
NewPageInfo(pageNum, indexType) ==
    [PageNumber |-> pageNum, IndexType |-> indexType, IsMeta |-> FALSE,
     IsLeaf |-> FALSE, IsRoot |-> FALSE, IsDeleted |-> FALSE, Flags |-> 0,
     Level |-> Zero32, PrevBlock |-> Zero32, NextBlock |-> Zero32,
     RightLink |-> Zero32, ItemCount |-> 0, FreeSpace |-> 0,
     LSN |-> <<0, 0, 0, 0>>]

PageDone(info) == [panic |-> FALSE, info |-> info]

PagePanic == [panic |-> TRUE, info |-> NewPageInfo(0, IndexTypeUnknown)]

parseBTreePageSpecial(info, special) ==
    IF special.len < 16 THEN PageDone(info)
    ELSE PageDone([info EXCEPT
             !.PrevBlock = rd32(special, 0), !.NextBlock = rd32(special, 4),
             !.Level = rd32(special, 8), !.Flags = rd16(special, 12),
             !.IsLeaf = hasFlag(rd16(special, 12), 1),
             !.IsRoot = hasFlag(rd16(special, 12), 2),
             !.IsMeta = hasFlag(rd16(special, 12), 8),
             !.IsDeleted = hasFlag(rd16(special, 12), 4)])

\* parseHashPageSpecial returns below 12 bytes and then reads special[12:14]
parseHashPageSpecial(info, special) ==
    IF special.len < 12 THEN PageDone(info)
    ELSE IF ~CanSlice(special, 12, 14) THEN PagePanic
    ELSE PageDone([info EXCEPT
             !.PrevBlock = rd32(special, 0), !.NextBlock = rd32(special, 4),
             !.Flags = rd16(special, 12),
             !.IsMeta = hasFlag(rd16(special, 12), 8),
             !.Level = IF hasFlag(rd16(special, 12), 2)
                       THEN rd32(special, 8) ELSE @])

parseGiSTPageSpecial(info, special) ==
    IF special.len < 16 THEN PageDone(info)
    ELSE PageDone([info EXCEPT
             !.RightLink = rd32(special, 8), !.Flags = rd16(special, 12),
             !.IsLeaf = hasFlag(rd16(special, 12), 1),
             !.IsDeleted = hasFlag(rd16(special, 12), 2)])

parseGINPageSpecial(info, special) ==
    IF special.len < 8 THEN PageDone(info)
    ELSE PageDone([info EXCEPT
             !.RightLink = rd32(special, 0), !.ItemCount = rd16(special, 4),
             !.Flags = rd16(special, 6),
             !.IsLeaf = hasFlag(rd16(special, 6), 2),
             !.IsMeta = hasFlag(rd16(special, 6), 8),
             !.IsDeleted = hasFlag(rd16(special, 6), 4)])

parseSPGiSTPageSpecial(info, special) ==
    IF special.len < 6 THEN PageDone(info)
    ELSE PageDone([info EXCEPT
             !.Flags = rd16(special, 0),
             !.IsLeaf = hasFlag(rd16(special, 0), 4),
             !.IsMeta = hasFlag(rd16(special, 0), 1),
             !.IsDeleted = hasFlag(rd16(special, 0), 2)])

\* the switch of parseIndexPage on the type of the index
parsedSpecial(info, indexType, specialData) ==
    CASE indexType = IndexTypeBTree -> parseBTreePageSpecial(info, specialData)
      [] indexType = IndexTypeHash -> parseHashPageSpecial(info, specialData)
      [] indexType = IndexTypeGiST -> parseGiSTPageSpecial(info, specialData)
      [] indexType = IndexTypeGIN -> parseGINPageSpecial(info, specialData)
      [] indexType = IndexTypeSPGiST ->
             parseSPGiSTPageSpecial(info, specialData)
      [] OTHER -> PageDone(info)

\* parseIndexPage after the common header fields
parsedPage(page, info, indexType) ==
    IF rd16(page, 16) < PageSize
    THEN parsedSpecial(info, indexType, Rest(page, rd16(page, 16)))
    ELSE PageDone(info)

\* parseIndexPage parses a single index page
parseIndexPage(page, pageNum, indexType) ==
    IF page.len < PageSize THEN PageDone(NewPageInfo(pageNum, indexType))
    ELSE parsedPage(page,
             [NewPageInfo(pageNum, indexType) EXCEPT
                 !.LSN = rd64(page, 0),
                 !.FreeSpace = rd16(page, 14) - rd16(page, 12),
                 !.ItemCount = quot(rd16(page, 12) - headerSize, itemIDSize)],
             indexType)

\* data[offset : offset+PageSize] for page i
indexPage(data, i) == Slice(data, i * PageSize, (i + 1) * PageSize)

NoIndexInfo ==
    [err |-> TRUE, panic |-> FALSE, Type |-> IndexTypeUnknown,
     TotalPages |-> 0, Meta |-> NoMeta, RootPage |-> Zero32,
     Levels |-> Zero32, Pages |-> <<>>]

\* ParseIndexFile once the type and the metapage are known
indexInfo(data, type, meta, totalPages) ==
    IF meta.panic
       \/ \E i \in 0..(totalPages - 1) :
             parseIndexPage(indexPage(data, i), i, type).panic
    THEN [NoIndexInfo EXCEPT !.err = FALSE, !.panic = TRUE]
    ELSE [err |-> FALSE, panic |-> FALSE, Type |-> type,
          TotalPages |-> totalPages, Meta |-> meta,
          RootPage |-> IF type = IndexTypeBTree /\ ~meta.nil
                       THEN meta.fields[3] ELSE Zero32,
          Levels |-> IF type = IndexTypeBTree /\ ~meta.nil
                     THEN meta.fields[4] ELSE Zero32,
          Pages |-> [k \in 1..totalPages |->
                       parseIndexPage(indexPage(data, k - 1), k - 1,
                                      type).info]]

\* ParseIndexFile parses an index file and returns information about it
ParseIndexFile(data) ==
    IF data.len < PageSize THEN NoIndexInfo
    ELSE indexInfo(data, detectIndexType(Slice(data, 0, PageSize)),
                   parsedMeta(detectIndexType(Slice(data, 0, PageSize)),
                              Slice(data, 0, PageSize)),
                   data.len \div PageSize)

(***************************************************************************)
(* Specification SpecIndex: index files of one to MaxIdxPages pages, with  *)
(* or without bytes after the last page; the first page declares any of    *)
(* several special offsets, page IDs and flags.  detectIndexType is run on  *)
(* the first page and ParseIndexFile on the file.                          *)
(***************************************************************************)
VARIABLES ix_data, ix_type, ix_info, ix_pc

indexVars == <<ix_data, ix_type, ix_info, ix_pc>>

\* special offsets: none, a BTree or Hash section of 16 bytes, sections of
\* 14, 12, 2 and 1 bytes, and the end of the page
IdxSpecials == {0, 8176, 8178, 8180, 8190, 8191, 8192}

\* the last two bytes of a page
IdxPageIDs == {0, HashoPageID, GISTPageID, SPGISTPageID}

\* the bytes of a page at file offset off: pd_lower 28, pd_upper 8000, the
\* special offset, the page ID, a flag byte inside the special section
\* (meta at 12 or GIN data at 6) and the BTree magic and root
IdxPageBytes(off, special, id, kind, magic) ==
    (off + 13 :> 28) @@ (off + 15 :> 64) @@ (off + 16 :> 31)
    @@ (off + 17 :> special % 256) @@ (off + 18 :> special \div 256)
    @@ (off + PageSize - 1 :> id % 256) @@ (off + PageSize :> id \div 256)
    @@ (IF kind = "meta" THEN (off + special + 13 :> 8)
        ELSE IF kind = "gin" THEN (off + special + 7 :> 1)
        ELSE <<>>)
    @@ (IF magic THEN (off + 25 :> 98) @@ (off + 26 :> 49) @@ (off + 27 :> 5)
                      @@ (off + 33 :> 1)
        ELSE <<>>)

\* the first pages; every further page is a leaf page of the same page ID
\* with a special section of 16 or of 12 bytes
IdxFirst ==
    {IdxPageBytes(0, s, id, kind, magic) :
        s \in IdxSpecials, id \in IdxPageIDs,
        kind \in {"none", "meta", "gin"}, magic \in BOOLEAN}

RECURSIVE IdxFiles(_)
IdxFiles(n) ==
    IF n = 1 THEN {[first |-> f, mem |-> f] : f \in IdxFirst}
    ELSE {[first |-> f.first,
           mem |-> f.mem @@ IdxPageBytes((n - 1) * PageSize, s,
                                         rd16(FromSeq(<<f.first[PageSize - 1],
                                                        f.first[PageSize]>>), 0),
                                         "none", FALSE)] :
             f \in IdxFiles(n - 1), s \in {8176, 8180}}

InitIndex ==
    /\ \E n \in 1..MaxIdxPages, tail \in {0, 2} :
          \E f \in IdxFiles(n) :
             ix_data = MkSlice(Sparse(f.mem), n * PageSize + tail,
                               n * PageSize + tail)
    /\ ix_type = IndexTypeUnknown
    /\ ix_info = NoIndexInfo
    /\ ix_pc = "ready"

DetectIndexTypeCall ==
    /\ ix_pc = "ready"
    /\ ix_type' = detectIndexType(Slice(ix_data, 0, PageSize))
    /\ ix_pc' = "detected"
    /\ UNCHANGED <<ix_data, ix_info>>

ParseIndexFileCall ==
    /\ ix_pc = "ready"
    /\ ix_info' = ParseIndexFile(ix_data)
    /\ ix_pc' = "parsed"
    /\ UNCHANGED <<ix_data, ix_type>>

(***************************************************************************)
(* Arrays (decodeArray and parseArrayElements).  An int32 is an integer of *)
(* -2^31 .. 2^31-1 and a product of two wraps as in Go.  The result keeps  *)
(* the decoded elements, the capacity reserved for them (alloc), the       *)
(* number of loop iterations (work) and the end of the highest byte of raw *)
(* that was looked at (reach).                                             *)
(***************************************************************************)
\* fixedLengths[oid]; 0 stands for an OID the map does not hold
fixedLengths(oid) ==
    CASE oid \in {OidBool, OidChar} -> 1
      [] oid = OidInt2 -> 2
      [] oid \in {OidInt4, OidOid, OidFloat4, OidDate, OidXid, OidCid} -> 4
      [] oid \in {OidInt8, OidFloat8, OidTimestamp, OidTimestampTZ, OidMoney,
                  OidTime, OidMacaddr8, OidPgLsn} -> 8
      [] oid \in {OidTid, OidMacaddr} -> 6
      [] oid = OidTimeTZ -> 12
      [] oid \in {OidUUID, OidPoint, OidInterval} -> 16
      [] oid \in {OidLine, OidCircle} -> 24
      [] oid \in {OidLseg, OidBox} -> 32
      [] OTHER -> 0

\* the 16-bit halves of an int32 taken as a uint32
halves(a) ==
    [hi |-> IF a >= 0 THEN a \div 65536 ELSE 65536 + (a \div 65536),
     lo |-> a % 65536]

\* x * y on 16-bit values, as the two 16-bit halves of the 32-bit product
mul16(x, y) ==
    [hi |-> ((x * (y % 256) + ((x * (y \div 256)) % 256) * 256) \div 65536
             + (x * (y \div 256)) \div 256) % 65536,
     lo |-> (x * (y % 256) + ((x * (y \div 256)) % 256) * 256) % 65536]

\* the int32 with the given halves
int32Of(h) ==
    IF h.hi >= 32768 THEN (h.hi - 65536) * 65536 + h.lo
    ELSE h.hi * 65536 + h.lo

\* a * b on the halves of two int32, modulo 2^32
mulHalves(x, y) ==
    [hi |-> (mul16(x.lo, y.lo).hi + mul16(x.hi, y.lo).lo
             + mul16(x.lo, y.hi).lo) % 65536,
     lo |-> mul16(x.lo, y.lo).lo]

\* total *= dim on int32
mulInt32(a, b) == int32Of(mulHalves(halves(a), halves(b)))

\* (total + 7) / 8 on int32, for total > 0: the sum wraps above 2^31 - 8
bitmapBytes(total) ==
    IF total > 2147483640
    THEN quot((((total - 2147483647) + 7) - 2147483647) - 2, 8)
    ELSE (total + 7) \div 8

\* the loop of decodeArray over the dimension sizes at 12 + 4i
RECURSIVE arrayTotal(_, _, _, _)
arrayTotal(raw, ndim, i, total) ==
    IF i >= ndim THEN [ok |-> TRUE, v |-> total]
    ELSE IF ~i32(raw, 12 + i * 4).ok THEN [ok |-> FALSE, v |-> 0]
    ELSE arrayTotal(raw, ndim, i + 1, mulInt32(total, i32(raw, 12 + i * 4).v))

NilArray ==
    [nil |-> TRUE, panic |-> FALSE, elems |-> <<>>, alloc |-> 0, work |-> 0,
     reach |-> 0]

ArrayPanic(alloc, work) ==
    [nil |-> FALSE, panic |-> TRUE, elems |-> <<>>, alloc |-> alloc,
     work |-> work, reach |-> 0]

\* the elements parseArrayElements returns after i iterations
ArrayDone(p, i, acc) ==
    [nil |-> FALSE, panic |-> FALSE, elems |-> acc.elems, alloc |-> p.count,
     work |-> i, reach |-> acc.reach]

\* elems = append(elems, v) for the element v whose bytes end at upto
appended(acc, v, upto) ==
    [elems |-> Append(acc.elems, v), reach |-> Max(acc.reach, upto)]

\* nulls != nil && nulls[i/8]&(1<<(i%8)) == 0
nullElement(p, i) ==
    p.hasNulls /\ ~Bit(At(p.nulls, i \div 8), i % 8)

RECURSIVE arrayLoop(_, _, _, _)
\* an element of fixed width at off
fixedElement(p, off, i, acc, v) ==
    IF v.panic THEN ArrayPanic(p.count, i + 1)
    ELSE arrayLoop(p, off + p.elemLen, i + 1,
                   appended(acc, v, off + v.used))

\* a varlena element at off whose header of hdr bytes declares n bytes
sizedElement(p, off, i, acc, hdr, n) ==
    IF ~CanSlice(p.raw, off + hdr, off + n) THEN ArrayPanic(p.count, i + 1)
    ELSE IF DecodeType(Slice(p.raw, off + hdr, off + n), p.elemOid).panic
    THEN ArrayPanic(p.count, i + 1)
    ELSE arrayLoop(p, off + n, i + 1,
             appended(acc,
                 DecodeType(Slice(p.raw, off + hdr, off + n), p.elemOid),
                 off + hdr
                 + DecodeType(Slice(p.raw, off + hdr, off + n),
                              p.elemOid).used))

\* a varlena element at the aligned offset off
varlenaElement(p, off, i, acc) ==
    IF off >= p.raw.len THEN ArrayDone(p, i, acc)
    ELSE IF At(p.raw, off) % 2 = 1
    THEN sizedElement(p, off, i, acc, 1, At(p.raw, off) \div 2)
    ELSE IF off + 4 > p.raw.len THEN ArrayDone(p, i, acc)
    ELSE sizedElement(p, off, i, acc, 4,
                      u32(p.raw, off).hi * 16384 + u32(p.raw, off).lo \div 4)

\* the loop of parseArrayElements from iteration i at offset off; the test
\* off+elemLen > len(raw) is written without the sum, which an offset near
\* 2^31 takes beyond the integers of the model
arrayLoop(p, off, i, acc) ==
    IF i >= p.count THEN ArrayDone(p, i, acc)
    ELSE IF p.hasNulls /\ i \div 8 >= p.nulls.len
    THEN ArrayPanic(p.count, i + 1)
    ELSE IF nullElement(p, i)
    THEN arrayLoop(p, off, i + 1,
                   appended(acc, NilResult, p.nullsAt + i \div 8 + 1))
    ELSE IF p.fixed
    THEN IF off > p.raw.len - p.elemLen THEN ArrayDone(p, i, acc)
         ELSE fixedElement(p, off, i, acc,
                  DecodeType(Slice(p.raw, off, off + p.elemLen), p.elemOid))
    ELSE varlenaElement(p, IF i > 0 THEN align(off, 4) ELSE off, i, acc)

\* parseArrayElements decodes count elements from off on; nulls is the null
\* bitmap raw[nulls.at : nulls.at + nulls.len], or nil
parseArrayElements(raw, off, count, elemOid, elemLen, fixed, nulls) ==
    arrayLoop([raw |-> raw, count |-> count, elemOid |-> elemOid,
               elemLen |-> elemLen, fixed |-> fixed, hasNulls |-> ~nulls.nil,
               nullsAt |-> nulls.at,
               nulls |-> Slice(raw, nulls.at, nulls.at + nulls.len)],
              off, 0, [elems |-> <<>>, reach |-> 12 + 4 * i32(raw, 0).v])

\* decodeArray once the element count is known
arrayOf(raw, elemOid, ndim, dataoff, total) ==
    IF total <= 0 THEN NilArray
    ELSE IF dataoff > 0
    THEN IF ~CanSlice(raw, 12 + ndim * 8,
                      12 + ndim * 8 + bitmapBytes(total))
         THEN ArrayPanic(0, 0)
         ELSE parseArrayElements(raw, dataoff, total, elemOid,
                  fixedLengths(elemOid), fixedLengths(elemOid) # 0,
                  [nil |-> FALSE, at |-> 12 + ndim * 8,
                   len |-> bitmapBytes(total)])
    ELSE parseArrayElements(raw, 12 + ndim * 8, total, elemOid,
             fixedLengths(elemOid), fixedLengths(elemOid) # 0,
             [nil |-> TRUE, at |-> 0, len |-> 0])

\* decodeArray once the number of dimensions is in range
dimensioned(raw, elemOid, ndim, dataoff, total) ==
    IF ~total.ok THEN ArrayPanic(0, 0)
    ELSE arrayOf(raw, elemOid, ndim, dataoff, total.v)

\* decodeArray decodes the array raw with elements of type elemOid: nil
\* below 20 bytes, for a dimension count outside 1..6 and for an element
\* count that is not positive
decodeArray(raw, elemOid) ==
    IF raw.len < 20 THEN NilArray
    ELSE IF i32(raw, 0).v <= 0 \/ i32(raw, 0).v > 6 THEN NilArray
    ELSE dimensioned(raw, elemOid, i32(raw, 0).v, i32(raw, 4).v,
                     arrayTotal(raw, i32(raw, 0).v, 0, 1))

(***************************************************************************)
(* Specification SpecArray: decodeArray applied to one array image: the    *)
(* dimension count, the offset of the data, the element type word, two     *)
(* dimension sizes and a body, in a backing array of the same length or    *)
(* MaxSlack bytes longer.                                                   *)
(***************************************************************************)
VARIABLES ar_raw, ar_elem, ar_result, ar_pc

arrayVars == <<ar_raw, ar_elem, ar_result, ar_pc>>

\* element types: fixed width 4 and 1, and varlena
ArrElems == {OidInt4, OidBool, OidText}

\* 32-bit words of the header: 0, 1, 2, 3, 2^16, 2^30, 2^31 - 1 and -1;
\* the body starts with a byte of HeadBytes and goes on with the byte 42
ArrWords ==
    {[hi |-> 0, lo |-> 0], [hi |-> 0, lo |-> 1], [hi |-> 0, lo |-> 2],
     [hi |-> 0, lo |-> 3], [hi |-> 1, lo |-> 0], [hi |-> 16384, lo |-> 0],
     [hi |-> 32767, lo |-> 65535], [hi |-> 65535, lo |-> 65535]}

\* dimension counts: none, one to three, and more than six
ArrDims == {0, 1, 2, 3, 7}

\* offsets of the data: no null bitmap, behind a bitmap of four bytes, and
\* far behind the input
ArrDataoffs ==
    {[hi |-> 0, lo |-> 0], [hi |-> 0, lo |-> 24], [hi |-> 32767, lo |-> 65520]}

\* lengths of the input: one byte short of the header, and the header with
\* a body of up to MaxArrBody bytes
ArrLens == 19..(20 + MaxArrBody)

\* byte k (from 0) of the word w
wordByte(w, k) ==
    CASE k = 0 -> w.lo % 256
      [] k = 1 -> w.lo \div 256
      [] k = 2 -> w.hi % 256
      [] k = 3 -> w.hi \div 256

ArrImage(ndim, dataoff, d1, d2, h, n, slack) ==
    MkSlice(Sparse([i \in 1..(n + slack) |->
                CASE i = 1 -> ndim
                  [] i \in 5..8 -> wordByte(dataoff, i - 5)
                  [] i \in 13..16 -> wordByte(d1, i - 13)
                  [] i \in 17..20 -> wordByte(d2, i - 17)
                  [] i = 21 -> h
                  [] i > 21 -> 42
                  [] OTHER -> 0]), n, n + slack)

InitArray ==
    /\ \E ndim \in ArrDims, dataoff \in ArrDataoffs, d1 \in ArrWords,
          d2 \in {[hi |-> 0, lo |-> 1], [hi |-> 1, lo |-> 0]},
          h \in HeadBytes, n \in ArrLens, slack \in {0, MaxSlack} :
         /\ ndim \in {0, 7} => (d1.lo = 1 /\ d2.lo = 1 /\ h = 0)
         /\ ndim = 1 => d2.lo = 1
         /\ ar_raw = ArrImage(ndim, dataoff, d1, d2, h, n, slack)
    /\ ar_elem \in ArrElems
    /\ ar_result = NilArray
    /\ ar_pc = "call"

DecodeArrayCall ==
    /\ ar_pc = "call"
    /\ ar_result' = decodeArray(ar_raw, ar_elem)
    /\ ar_pc' = "done"
    /\ UNCHANGED <<ar_raw, ar_elem>>

(***************************************************************************)
(* The specifications.  Each runs one component; the variables of the      *)
(* other components stay at their idle values.                             *)
(***************************************************************************)
vars == <<typeVars, tupleVars, pageVars, dumpVars, varlenaVars, attrVars,
         jsonbVars, rangeVars, droppedVars, remoteVars, controlVars,
         checksumVars, indexVars, arrayVars>>

IdleType ==
    /\ ty_data = FromSeq(<<>>) /\ ty_oid = 0
    /\ ty_result = NilResult /\ ty_pc = "idle"

IdleTuple ==
    /\ tp_raw = FromSeq(<<>>) /\ tp_cols = <<>>
    /\ tp_result = [nil |-> TRUE, panic |-> FALSE, steps |-> <<>>]
    /\ tp_pc = "idle"

IdlePage ==
    /\ pg_file = FromSeq(<<>>) /\ pg_visibleOnly = FALSE
    /\ pg_result = [panic |-> FALSE, entries |-> <<>>]
    /\ pg_pc = "idle"

IdleDump ==
    /\ du_content = Content(FALSE) /\ du_broken = {} /\ du_opts = NilOptions
    /\ du_result = NoDump /\ du_dbres = NoDbDump /\ du_pc = "off"

IdleVarlena ==
    /\ vl_data = FromSeq(<<>>) /\ vl_result = NilVarlena(0, 0) /\ vl_pc = "idle"

IdleAttr ==
    /\ at_raws = <<>> /\ at_version = 0
    /\ at_result = [schema |-> "", attrs |-> <<>>] /\ at_pc = "idle"

IdleJsonb ==
    /\ jb_data = FromSeq(<<>>) /\ jb_result = JNil /\ je_entries = <<>>
    /\ je_idx = 0 /\ je_base = 0 /\ je_out = [off |-> 0, len |-> 0]
    /\ jb_pc = "idle"

IdleRange ==
    /\ rg_data = FromSeq(<<>>) /\ rg_oid = 0 /\ rg_result = RangeEmptyText
    /\ rg_pc = "idle"

IdleDropped ==
    /\ dr_rows = <<>> /\ dr_raw = FromSeq(<<>>) /\ dr_cols = <<>>
    /\ dr_result = [nil |-> TRUE, panic |-> FALSE, steps |-> <<>>]
    /\ dr_pc = "idle"

IdleRemote ==
    /\ rc_broken = {} /\ rc_client = NewRemoteClient /\ rc_op = NoOp
    /\ rc_pre = NewRemoteClient /\ rc_out = <<>> /\ rc_calls = 0

IdleControl ==
    /\ cf_data = FromSeq(<<>>) /\ cf_result = NoControlFile /\ cf_pc = "idle"

IdleChecksum ==
    /\ ck_page = FromSeq(<<>>) /\ ck_block = [hi |-> 0, lo |-> 0]
    /\ ck_result = checksumResult([hi |-> 0, lo |-> 0], 0, 0, FALSE,
                                  <<0, 0, 0, 0>>)
    /\ ck_pc = "idle"

IdleIndex ==
    /\ ix_data = FromSeq(<<>>) /\ ix_type = IndexTypeUnknown
    /\ ix_info = NoIndexInfo /\ ix_pc = "idle"

IdleArray ==
    /\ ar_raw = FromSeq(<<>>) /\ ar_elem = 0
    /\ ar_result = NilArray /\ ar_pc = "idle"

TypeInit == InitType /\ IdleTuple /\ IdlePage /\ IdleDump /\ IdleVarlena /\
    IdleAttr /\ IdleJsonb /\ IdleRange /\ IdleDropped /\ IdleRemote /\
    IdleControl /\ IdleChecksum /\ IdleIndex /\ IdleArray

TypeNext ==
    /\ DecodeTypeCall
    /\ UNCHANGED <<tupleVars, pageVars, dumpVars, varlenaVars, attrVars,
                   jsonbVars, rangeVars, droppedVars, remoteVars,
                   controlVars, checksumVars, indexVars, arrayVars>>

SpecType == TypeInit /\ [][TypeNext]_vars

TupleInit == IdleType /\ InitTuple /\ IdlePage /\ IdleDump /\
    IdleVarlena /\ IdleAttr /\ IdleJsonb /\ IdleRange /\ IdleDropped /\
    IdleRemote /\ IdleControl /\ IdleChecksum /\ IdleIndex /\ IdleArray

TupleNext ==
    /\ DecodeTupleCall
    /\ UNCHANGED <<typeVars, pageVars, dumpVars, varlenaVars, attrVars, jsonbVars,
                   rangeVars, droppedVars, remoteVars, controlVars,
                   checksumVars, indexVars, arrayVars>>

SpecTuple == TupleInit /\ [][TupleNext]_vars

PageInit == IdleType /\ IdleTuple /\ InitPage /\ IdleDump /\ IdleVarlena /\
    IdleAttr /\ IdleJsonb /\ IdleRange /\ IdleDropped /\ IdleRemote /\
    IdleControl /\ IdleChecksum /\ IdleIndex /\ IdleArray

PageNext ==
    /\ ReadTuplesCall
    /\ UNCHANGED <<typeVars, tupleVars, dumpVars, varlenaVars, attrVars,
                   jsonbVars, rangeVars, droppedVars, remoteVars,
                   controlVars, checksumVars, indexVars, arrayVars>>

SpecPage == PageInit /\ [][PageNext]_vars

DumpInit == IdleType /\ IdleTuple /\ IdlePage /\ InitDump /\ IdleVarlena /\
    IdleAttr /\ IdleJsonb /\ IdleRange /\ IdleDropped /\ IdleRemote /\
    IdleControl /\ IdleChecksum /\ IdleIndex /\ IdleArray

DumpNext ==
    \/ BreakFile /\ UNCHANGED <<typeVars, tupleVars, pageVars, varlenaVars, attrVars,
              jsonbVars, rangeVars, droppedVars, remoteVars, controlVars,
              checksumVars, indexVars, arrayVars>>
    \/ DumpDataDirCall /\ UNCHANGED <<typeVars, tupleVars, pageVars, varlenaVars, attrVars,
              jsonbVars, rangeVars, droppedVars, remoteVars, controlVars,
              checksumVars, indexVars, arrayVars>>
    \/ DumpDatabaseFromFilesCall /\ UNCHANGED <<typeVars, tupleVars, pageVars, varlenaVars, attrVars,
              jsonbVars, rangeVars, droppedVars, remoteVars, controlVars,
              checksumVars, indexVars, arrayVars>>

SpecDump == DumpInit /\ [][DumpNext]_vars

VarlenaInit == IdleType /\ IdleTuple /\ IdlePage /\ IdleDump /\
    InitVarlena /\ IdleAttr /\ IdleJsonb /\ IdleRange /\ IdleDropped /\
    IdleRemote /\ IdleControl /\ IdleChecksum /\ IdleIndex /\ IdleArray

VarlenaNext ==
    /\ ReadVarlenaCall
    /\ UNCHANGED <<typeVars, tupleVars, pageVars, dumpVars, attrVars, jsonbVars,
                   rangeVars, droppedVars, remoteVars, controlVars,
                   checksumVars, indexVars, arrayVars>>

SpecVarlena == VarlenaInit /\ [][VarlenaNext]_vars

AttrInit == IdleType /\ IdleTuple /\ IdlePage /\ IdleDump /\ IdleVarlena /\
    InitAttr /\ IdleJsonb /\ IdleRange /\ IdleDropped /\ IdleRemote /\
    IdleControl /\ IdleChecksum /\ IdleIndex /\ IdleArray

AttrNext ==
    /\ ParsePGAttributeCall
    /\ UNCHANGED <<typeVars, tupleVars, pageVars, dumpVars, varlenaVars,
                   jsonbVars, rangeVars, droppedVars, remoteVars,
                   controlVars, checksumVars, indexVars, arrayVars>>

SpecAttr == AttrInit /\ [][AttrNext]_vars

JsonbInit == IdleType /\ IdleTuple /\ IdlePage /\ IdleDump /\
    IdleVarlena /\ IdleAttr /\ InitJsonb /\ IdleRange /\ IdleDropped /\
    IdleRemote /\ IdleControl /\ IdleChecksum /\ IdleIndex /\ IdleArray

JsonbNext ==
    \/ ParseJSONBCall /\ UNCHANGED <<typeVars, tupleVars, pageVars, dumpVars, varlenaVars, attrVars,
              rangeVars, droppedVars, remoteVars, controlVars,
              checksumVars, indexVars, arrayVars>>
    \/ EntryOffLenCall /\ UNCHANGED <<typeVars, tupleVars, pageVars, dumpVars, varlenaVars, attrVars,
              rangeVars, droppedVars, remoteVars, controlVars,
              checksumVars, indexVars, arrayVars>>

SpecJsonb == JsonbInit /\ [][JsonbNext]_vars

RangeInit == IdleType /\ IdleTuple /\ IdlePage /\ IdleDump /\
    IdleVarlena /\ IdleAttr /\ IdleJsonb /\ InitRange /\ IdleDropped /\
    IdleRemote /\ IdleControl /\ IdleChecksum /\ IdleIndex /\ IdleArray

RangeNext ==
    /\ DecodeRangeCall
    /\ UNCHANGED <<typeVars, tupleVars, pageVars, dumpVars, varlenaVars, attrVars,
                   jsonbVars, droppedVars, remoteVars, controlVars,
                   checksumVars, indexVars, arrayVars>>

SpecRange == RangeInit /\ [][RangeNext]_vars

DroppedInit == IdleType /\ IdleTuple /\ IdlePage /\ IdleDump /\
    IdleVarlena /\ IdleAttr /\ IdleJsonb /\ IdleRange /\ InitDropped /\
    IdleRemote /\ IdleControl /\ IdleChecksum /\ IdleIndex /\ IdleArray

DroppedNext ==
    \/ BuildColumnsCall /\ UNCHANGED <<typeVars, tupleVars, pageVars, dumpVars, varlenaVars, attrVars,
              jsonbVars, rangeVars, remoteVars, controlVars, checksumVars,
              indexVars, arrayVars>>
    \/ RecoverRowCall /\ UNCHANGED <<typeVars, tupleVars, pageVars, dumpVars, varlenaVars, attrVars,
              jsonbVars, rangeVars, remoteVars, controlVars, checksumVars,
              indexVars, arrayVars>>

SpecDropped == DroppedInit /\ [][DroppedNext]_vars

RemoteInit == IdleType /\ IdleTuple /\ IdlePage /\ IdleDump /\
    IdleVarlena /\ IdleAttr /\ IdleJsonb /\ IdleRange /\ IdleDropped /\
    InitRemote /\ IdleControl /\ IdleChecksum /\ IdleIndex /\ IdleArray

RemoteNext ==
    \/ RemoteBreak /\ UNCHANGED <<typeVars, tupleVars, pageVars, dumpVars, varlenaVars, attrVars,
              jsonbVars, rangeVars, droppedVars, controlVars, checksumVars,
              indexVars, arrayVars>>
    \/ RemoteRepair /\ UNCHANGED <<typeVars, tupleVars, pageVars, dumpVars, varlenaVars, attrVars,
              jsonbVars, rangeVars, droppedVars, controlVars, checksumVars,
              indexVars, arrayVars>>
    \/ DatabasesCall /\ UNCHANGED <<typeVars, tupleVars, pageVars, dumpVars, varlenaVars, attrVars,
              jsonbVars, rangeVars, droppedVars, controlVars, checksumVars,
              indexVars, arrayVars>>
    \/ TablesCall /\ UNCHANGED <<typeVars, tupleVars, pageVars, dumpVars, varlenaVars, attrVars,
              jsonbVars, rangeVars, droppedVars, controlVars, checksumVars,
              indexVars, arrayVars>>
    \/ QueryCall /\ UNCHANGED <<typeVars, tupleVars, pageVars, dumpVars, varlenaVars, attrVars,
              jsonbVars, rangeVars, droppedVars, controlVars, checksumVars,
              indexVars, arrayVars>>
    \/ DumpAllCall /\ UNCHANGED <<typeVars, tupleVars, pageVars, dumpVars, varlenaVars, attrVars,
              jsonbVars, rangeVars, droppedVars, controlVars, checksumVars,
              indexVars, arrayVars>>

SpecRemote == RemoteInit /\ [][RemoteNext]_vars

ControlInit == IdleType /\ IdleTuple /\ IdlePage /\ IdleDump /\
    IdleVarlena /\ IdleAttr /\ IdleJsonb /\ IdleRange /\ IdleDropped /\
    IdleRemote /\ InitControl /\ IdleChecksum /\ IdleIndex /\ IdleArray

ControlNext ==
    /\ ParseControlFileCall
    /\ UNCHANGED <<typeVars, tupleVars, pageVars, dumpVars, varlenaVars, attrVars,
                   jsonbVars, rangeVars, droppedVars, remoteVars,
                   checksumVars, indexVars, arrayVars>>

SpecControl == ControlInit /\ [][ControlNext]_vars

ChecksumInit == IdleType /\ IdleTuple /\ IdlePage /\ IdleDump /\
    IdleVarlena /\ IdleAttr /\ IdleJsonb /\ IdleRange /\ IdleDropped /\
    IdleRemote /\ IdleControl /\ InitChecksum /\ IdleIndex /\ IdleArray

ChecksumNext ==
    /\ VerifyPageChecksumCall
    /\ UNCHANGED <<typeVars, tupleVars, pageVars, dumpVars, varlenaVars, attrVars,
                   jsonbVars, rangeVars, droppedVars, remoteVars,
                   controlVars, indexVars, arrayVars>>

SpecChecksum == ChecksumInit /\ [][ChecksumNext]_vars

IndexInit == IdleType /\ IdleTuple /\ IdlePage /\ IdleDump /\
    IdleVarlena /\ IdleAttr /\ IdleJsonb /\ IdleRange /\ IdleDropped /\
    IdleRemote /\ IdleControl /\ IdleChecksum /\ InitIndex /\ IdleArray

IndexNext ==
    \/ DetectIndexTypeCall /\ UNCHANGED <<typeVars, tupleVars, pageVars, dumpVars, varlenaVars, attrVars,
              jsonbVars, rangeVars, droppedVars, remoteVars, controlVars,
              checksumVars, arrayVars>>
    \/ ParseIndexFileCall /\ UNCHANGED <<typeVars, tupleVars, pageVars, dumpVars, varlenaVars, attrVars,
              jsonbVars, rangeVars, droppedVars, remoteVars, controlVars,
              checksumVars, arrayVars>>

SpecIndex == IndexInit /\ [][IndexNext]_vars

ArrayInit == IdleType /\ IdleTuple /\ IdlePage /\ IdleDump /\
    IdleVarlena /\ IdleAttr /\ IdleJsonb /\ IdleRange /\ IdleDropped /\
    IdleRemote /\ IdleControl /\ IdleChecksum /\ IdleIndex /\ InitArray

ArrayNext ==
    /\ DecodeArrayCall
    /\ UNCHANGED <<typeVars, tupleVars, pageVars, dumpVars, varlenaVars, attrVars,
                   jsonbVars, rangeVars, droppedVars, remoteVars,
                   controlVars, checksumVars, indexVars>>

SpecArray == ArrayInit /\ [][ArrayNext]_vars

Init == DumpInit

Next == DumpNext

Spec == SpecDump

(***************************************************************************)
(* Properties of the type decoder.                                         *)
(***************************************************************************)
\* C1: for every byte slice and every type OID, DecodeType and the
\* little-endian readers it uses return a value; no input makes the
\* decoder panic.
C1_DecodeNeverPanics == ty_pc = "done" => ~ty_result.panic

(***************************************************************************)
(* Properties of the page parser and the heap scan.                        *)
(***************************************************************************)
\* the entries ReadTuples returned for page k, in order
pgEntriesOf(k) ==
    SelectSeq(pg_result.entries, LAMBDA e : e.PageOffset = (k - 1) * PageSize)

\* page k has a header that passes validation and declares 8192 bytes
pgValid8K(k) == validHeader(pgHeader(k)) /\ pgHeader(k).PageSize = PageSize

\* C2: for every valid 8192-byte page, ParsePage returns between 0 and
\* (lower - 24)/4 tuple entries, and every returned entry has flags = normal
\* and a byte range [offset, offset+length) within [upper, pagesize).
C2_PageEntriesBounded ==
    (pg_pc = "done" /\ ~pg_visibleOnly /\ ~pg_result.panic) =>
        \A k \in 1..pgPageCount :
            pgValid8K(k) =>
                /\ Len(pgEntriesOf(k)) <= (pgHeader(k).Lower - headerSize) \div itemIDSize
                /\ \A i \in 1..Len(pgEntriesOf(k)) :
                      LET it == pgEntriesOf(k)[i].Item
                      IN /\ it.Flags = 1
                         /\ pgHeader(k).Upper <= it.Offset
                         /\ it.Offset + it.Length <= pgHeader(k).PageSize

\* the visibility predicate on the infomask word: xmin committed (0x0100)
\* and (xmax invalid (0x0800) or not xmax committed (0x0400))
maskVisible(mask) == Bit(mask, 8) /\ (Bit(mask, 11) \/ ~Bit(mask, 10))

unstamped(entries) == [i \in 1..Len(entries) |-> [entries[i] EXCEPT !.PageOffset = 0]]

\* C6: with visible-only reading ReadTuples emits a parsed tuple iff
\* xmin_committed and (xmax_invalid or not xmax_committed) holds for its
\* infomask; with visible-only off every tuple ParsePage produced is
\* emitted; the tuples come out in page order, then line-pointer order.
C6_VisibleTuplesEmitted ==
    (pg_pc = "done" /\ ~pg_result.panic) =>
        /\ \A k \in 1..pgPageCount :
              unstamped(pgEntriesOf(k))
                = SelectSeq(ParsePage(pgPage(k)).entries,
                            LAMBDA e : ~pg_visibleOnly \/ maskVisible(e.Tuple.Infomask))
        /\ \A i, j \in 1..Len(pg_result.entries) :
              i < j =>
                 LET a == pg_result.entries[i]
                     b == pg_result.entries[j]
                 IN \/ a.PageOffset < b.PageOffset
                    \/ a.PageOffset = b.PageOffset /\ a.Index < b.Index
        /\ \A i \in 1..Len(pg_result.entries) :
              \E k \in 1..pgPageCount : pg_result.entries[i].PageOffset = (k - 1) * PageSize

\* a visible-only read of two pages that emitted a tuple of each page and
\* held back a tuple ParsePage produced
C6_Witness ==
    /\ pg_pc = "done" /\ pg_visibleOnly /\ ~pg_result.panic
    /\ pgPageCount = 2
    /\ Len(pgEntriesOf(1)) >= 1 /\ Len(pgEntriesOf(2)) >= 1
    /\ Len(pgEntriesOf(1)) < Len(ParsePage(pgPage(1)).entries)

(***************************************************************************)
(* Properties of the row decoder.                                          *)
(***************************************************************************)
tpSteps == tp_result.steps

\* C3: for every tuple and every column sequence DecodeTuple consumes only
\* bytes in [0, len(user_data)] and never reads past the end of the tuple's
\* data, whatever lengths the varlena headers inside the data declare.
C3_ReadsWithinTupleData ==
    tp_pc = "done" =>
        /\ ~tp_result.panic
        /\ \A i \in 1..Len(tpSteps) :
              /\ tpSteps[i].consumed > 0 =>
                    tpSteps[i].at + tpSteps[i].consumed <= tpData.len
              /\ tpSteps[i].touched > 0 =>
                    tpSteps[i].at + tpSteps[i].touched <= tpData.len

\* C4: every column whose null-bitmap bit is 0 decodes to null without
\* advancing the offset: the offset after the null column is the offset
\* before it, with no bytes consumed and no alignment padding added.
C4_NullKeepsOffset ==
    tp_pc = "done" =>
        \A i \in 1..Len(tpSteps) :
            tpSteps[i].null =>
                /\ tpSteps[i].val.kind = "nil"
                /\ tpSteps[i].after = tpSteps[i].before

\* the alignment of a column by its alignment char
charAlign(c) == CASE c = "c" -> 1 [] c = "s" -> 2 [] c = "i" -> 4 [] c = "d" -> 8

\* C5: for every decoded row the offsets at which column values are read
\* are non-decreasing, and each is a multiple of that column's alignment
\* (c/s/i/d = 1/2/4/8).
C5_OffsetsAligned ==
    tp_pc = "done" =>
        /\ \A i, j \in 1..Len(tpSteps) : i < j => tpSteps[i].at <= tpSteps[j].at
        /\ \A i \in 1..Len(tpSteps) :
              /\ tpSteps[i].before <= tpSteps[i].at
              /\ tpSteps[i].at % tpSteps[i].align = 0
              /\ tp_cols[i].Align \in {"c", "s", "i", "d"} =>
                    tpSteps[i].at % charAlign(tp_cols[i].Align) = 0

\* a row whose second column was read after alignment padding
C5_Witness ==
    /\ tp_pc = "done" /\ ~tp_result.nil /\ ~tp_result.panic
    /\ Len(tpSteps) >= 2
    /\ tpSteps[2].at > tpSteps[2].before
    /\ ~tpSteps[2].null /\ tpSteps[2].consumed > 0

(***************************************************************************)
(* Properties of the dump orchestrator.                                    *)
(***************************************************************************)
\* the directory with every file readable
duFSok == FileSystem(du_content, {})

\* the dump of the same directory and options when nothing fails
duRef == DumpDataDir(duFSok, du_opts)

duCatalogsReadable(db) == duFS.class[db].ok /\ duFS.attr[db].ok

duHeapReadable(db, fn) == FileAt(duFS.heap[db], fn).ok

duEntries(res, db) == {i \in DOMAIN res.Databases : res.Databases[i].OID = db}

\* C7: DumpDataDir returns an error iff global/1262 cannot be read; for
\* every other combination of read failures it returns a result, in which
\* the databases and tables whose files were all readable appear exactly as
\* they would if nothing had failed.
C7_OnlyGlobalFails ==
    du_pc = "done" =>
        /\ du_result.err <=> ~duFS.global.ok
        /\ ~du_result.err =>
              \A i \in DOMAIN duRef.Databases :
                 LET ref == duRef.Databases[i]
                 IN duCatalogsReadable(ref.OID) =>
                       /\ \E j \in duEntries(du_result, ref.OID) :
                             /\ du_result.Databases[j].Name = ref.Name
                             /\ \A t \in ref.Tables :
                                   duHeapReadable(ref.OID, t.Filenode) =>
                                       t \in du_result.Databases[j].Tables
                             /\ (\A t \in ref.Tables : duHeapReadable(ref.OID, t.Filenode))
                                   => du_result.Databases[j] = ref
                       /\ Cardinality(duEntries(du_result, ref.OID)) = 1

\* a dump that went through although a catalog file and a heap file had
\* failed, and that holds a table with rows
C7_Witness ==
    /\ du_pc = "done" /\ ~du_result.err
    /\ \E p \in du_broken : p[1] = "heap"
    /\ \E p \in du_broken : p[1] \in {"class", "attr"}
    /\ \E i \in DOMAIN du_result.Databases :
          \E t \in du_result.Databases[i].Tables : t.RowCount > 0

\* C8: a database whose pg_class or pg_attribute file is unreadable
\* contributes no database entry to the dump, and a table whose heap file
\* is unreadable contributes no table entry.
C8_UnreadableUnitsSkipped ==
    (du_pc = "done" /\ ~du_result.err) =>
        \A i \in DOMAIN du_result.Databases :
            LET d == du_result.Databases[i]
            IN /\ duCatalogsReadable(d.OID)
               /\ \A t \in d.Tables : duHeapReadable(d.OID, t.Filenode)

\* the pg_class entries of database 5 and the options in effect
duClass5 == ParsePGClass(duFS.class[5].rows)

duSkipEnabled == du_opts.nil \/ du_opts.SkipSystemTables

duNamePg(name) == Len(name) >= 3 /\ name[1] = "p" /\ name[2] = "g" /\ name[3] = "_"

\* C9: DumpDatabaseFromFiles emits a table for a pg_class entry iff its
\* relkind is 'r' or empty, its name does not start with pg_ when
\* system-skip is enabled, and its lowercase name contains the table filter.
C9_TableSelection ==
    du_pc = "dbdone" =>
        {t.Filenode : t \in du_dbres.Tables}
          = {fn \in DOMAIN duClass5 :
                /\ duClass5[fn].Kind \in {"r", ""}
                /\ duSkipEnabled => ~duNamePg(duClass5[fn].Name)
                /\ Contains(ToLower(duClass5[fn].Name), du_opts.TableFilter)}

\* C9 as amended: ... and its lowercase name contains the lowercased table
\* filter (an empty filter matches every table); each emitted table carries
\* the OID, name and relkind of its entry.
C9_TableSelectionFolded ==
    du_pc = "dbdone" =>
        /\ {t.Filenode : t \in du_dbres.Tables}
             = {fn \in DOMAIN duClass5 :
                   /\ duClass5[fn].Kind \in {"r", ""}
                   /\ duSkipEnabled => ~duNamePg(duClass5[fn].Name)
                   /\ Contains(ToLower(duClass5[fn].Name), ToLower(du_opts.TableFilter))}
        /\ \A t \in du_dbres.Tables :
              /\ t.OID = duClass5[t.Filenode].OID
              /\ t.Name = duClass5[t.Filenode].Name
              /\ t.Kind = duClass5[t.Filenode].Kind

\* a dump under an upper-case filter that emitted some tables and left out
\* others
C9_Witness ==
    /\ du_pc = "dbdone"
    /\ du_opts.TableFilter = <<"U">>
    /\ du_dbres.Tables # {}
    /\ Cardinality(du_dbres.Tables) < Cardinality(DOMAIN duClass5)

\* C10: for nil options and for options in which the caller set only other
\* fields (SkipSystemTables left at its zero value), the dump contains no
\* table whose name starts with pg_.
C10_SystemTablesSkippedByDefault ==
    (du_pc = "done" /\ (du_opts.nil \/ ~du_opts.SkipSystemTables)) =>
        \A i \in DOMAIN du_result.Databases :
            \A t \in du_result.Databases[i].Tables : ~duNamePg(t.Name)

(***************************************************************************)
(* Properties of the varlena reader.                                       *)
(***************************************************************************)
\* the 4-byte header word of the slice: its low 16 bits and the rest
vlHeader == u32(vl_data, 0)

vlLongLen == vlHeader.hi * 16384 + vlHeader.lo \div 4

vlShortLen == At(vl_data, 0) \div 2

\* C14: ReadVarlena treats a value as short (1-byte header) exactly when
\* header & 1 = 1, with total length header >> 1, and as long (4-byte
\* header) exactly when header & 3 = 0, with total length header >> 2; in
\* both forms the payload is the bytes after the header up to the total
\* length and the bytes reported as consumed equal the total length.
C14_VarlenaForms ==
    vl_pc = "done" =>
        /\ (~vl_result.nil /\ vl_result.hdr = 1) => At(vl_data, 0) % 2 = 1
        /\ (~vl_result.nil /\ vl_result.hdr = 4) => vlHeader.lo % 4 = 0
        /\ (vl_data.len >= 1 /\ At(vl_data, 0) % 2 = 1
              /\ vlShortLen >= 1 /\ vl_data.len >= vlShortLen) =>
               /\ Bytes(vl_result.val) = Sub(vl_data, 1, vlShortLen)
               /\ vl_result.consumed = vlShortLen
        /\ (vl_data.len >= 4 /\ vlHeader.lo % 4 = 0
              /\ vlLongLen >= 4 /\ vl_data.len >= vlLongLen) =>
               /\ Bytes(vl_result.val) = Sub(vl_data, 4, vlLongLen)
               /\ vl_result.consumed = vlLongLen

(***************************************************************************)
(* Properties of the pg_attribute parser.                                  *)
(***************************************************************************)
\* the first five rows read with the v16 layout have attnum 1, 2, 3, 4, 5
atFirstFiveSequential ==
    /\ Len(at_raws) >= 5
    /\ \A i \in 1..5 : at_raws[i].w74 = i

\* C13: for any pg_attribute file and any version hint, ParsePGAttribute
\* decodes with the v16 layout iff the first 5 rows decoded with the v16
\* layout have attnum 1,2,3,4,5 in sequence; otherwise it falls back to the
\* v15 layout.
C13_LayoutByRowsAlone ==
    at_pc = "done" =>
        /\ at_result.schema \in {schemaPGAttrV15, schemaPGAttrV16}
        /\ at_result.schema = schemaPGAttrV16 <=> atFirstFiveSequential

\* C13 as amended: a version hint of 16 or more selects the v16 layout and
\* a hint of 12..15 the v15 layout whatever the rows hold; with a hint
\* below 12 or no hint (0) the v16 layout is used iff the first 5 rows
\* decoded with it have attnum 1..5, else the v15 layout; the columns
\* returned are the rows decoded with the layout selected.
C13_LayoutByHintThenRows ==
    at_pc = "done" =>
        /\ at_version >= 16 => at_result.schema = schemaPGAttrV16
        /\ (at_version >= 12 /\ at_version < 16) => at_result.schema = schemaPGAttrV15
        /\ at_version < 12 =>
              /\ at_result.schema \in {schemaPGAttrV15, schemaPGAttrV16}
              /\ at_result.schema = schemaPGAttrV16 <=> atFirstFiveSequential
        /\ \A relid \in DOMAIN at_result.attrs :
              \A j \in 1..Len(at_result.attrs[relid]) :
                 \E i \in 1..Len(at_raws) :
                    /\ at_raws[i].Relid = relid
                    /\ at_result.attrs[relid][j].Num
                         = (IF at_result.schema = schemaPGAttrV16
                            THEN at_raws[i].w74 ELSE at_raws[i].w78)
                    /\ at_result.attrs[relid][j].Len
                         = (IF at_result.schema = schemaPGAttrV16
                            THEN at_raws[i].w72 ELSE at_raws[i].w76)

\* a file without version hint whose first five rows passed the v16 test,
\* parsed into five or more columns
C13_Witness ==
    /\ at_pc = "done" /\ at_version = 0
    /\ atFirstFiveSequential
    /\ at_result.schema = schemaPGAttrV16
    /\ 100 \in DOMAIN at_result.attrs /\ Len(at_result.attrs[100]) >= 5

(***************************************************************************)
(* Properties of the JSONB decoder.                                        *)
(***************************************************************************)
\* the value fields of the entries at indices a..b, summed
RECURSIVE jeSum(_, _, _)
jeSum(entries, a, b) ==
    IF a > b THEN 0 ELSE jeVal(entries[a + 1]) + jeSum(entries, a + 1, b)

\* the indices before idx whose entry carries HAS_OFF
jeAnchors(entries, idx) ==
    {j \in 0..(idx - 1) : jeHasOffSet(entries[j + 1])}

jeNearest(entries, idx) ==
    CHOOSE j \in jeAnchors(entries, idx) :
        \A k \in jeAnchors(entries, idx) : k <= j

\* base, plus the offset of the nearest earlier HAS_OFF entry and the
\* lengths after it, or the lengths from the first entry on
jeStart(entries, idx, base) ==
    IF jeAnchors(entries, idx) = {}
    THEN base + jeSum(entries, 0, idx - 1)
    ELSE base + jeVal(entries[jeNearest(entries, idx) + 1])
              + jeSum(entries, jeNearest(entries, idx) + 1, idx - 1)

\* C16: entryOffLen resolves an entry to the start base + (offset of the
\* nearest earlier HAS_OFF entry + lengths of the entries since), and to the
\* length value for a length-form entry, value - start for an offset-form
\* entry
C16_ResolvedStartAndLength ==
    jb_pc = "resolved" =>
        /\ je_out.off = jeStart(je_entries, je_idx, je_base)
        /\ je_out.len =
               IF jeHasOffSet(je_entries[je_idx + 1])
               THEN jeVal(je_entries[je_idx + 1])
                    - jeStart(je_entries, je_idx, je_base)
               ELSE jeVal(je_entries[je_idx + 1])

\* the parsed input is an array container holding all its entries
jbPlainArray ==
    /\ jb_data.len >= 4
    /\ jbIsArray(u32(jb_data, 0)) /\ ~jbIsObject(u32(jb_data, 0))
    /\ ~jbIsScalar(u32(jb_data, 0))
    /\ jeVal(u32(jb_data, 0)) \in 1..MaxJsonCount
    /\ 4 + 4 * jeVal(u32(jb_data, 0)) <= jb_data.len

jbCount == jeVal(u32(jb_data, 0))

\* element i of the array resolves outside the payload: its start is past
\* the end, its end is past the end, or its length is negative
jbOutside(i) ==
    \/ entryOffLen(jbEntries(jb_data, jbCount), i, 0).len < 0
    \/ 4 + 4 * jbCount + entryOffLen(jbEntries(jb_data, jbCount), i, 0).off
           > jb_data.len
    \/ 4 + 4 * jbCount + entryOffLen(jbEntries(jb_data, jbCount), i, 0).off
         + entryOffLen(jbEntries(jb_data, jbCount), i, 0).len > jb_data.len

\* C15: ParseJSONB completes without a failure on every input, and an
\* entry that resolves outside the payload decodes to null
C15_OutsidePayloadIsNull ==
    jb_pc = "parsed" =>
        /\ ~jb_result.panic
        /\ jbPlainArray =>
               \A i \in 0..(jbCount - 1) :
                   jbOutside(i) => jb_result.val[i + 1] = JNil

\* the entries a header of jbCount entries announces, keys first
jbAll ==
    jbEntries(jb_data,
              IF jbIsObject(u32(jb_data, 0)) THEN 2 * jbCount ELSE jbCount)

jbDataStart == 4 + 4 * Len(jbAll)

\* the entries es, placed from payload offset base on, lie inside the
\* payload: each is a length, or the end offset of the first entry
jbInside(es, base) ==
    /\ \A i \in 1..Len(es) : jeHasOffSet(es[i]) => (i = 1 /\ base = 0)
    /\ jbDataStart + base + jeSum(es, 0, Len(es) - 1) <= jb_data.len

jbKeys == SubSeq(jbAll, 1, jbCount)

jbVals == SubSeq(jbAll, jbCount + 1, 2 * jbCount)

\* a valid container: an object or array header with a count, the entry
\* array and every entry inside the data, the keys of an object distinct,
\* a scalar an array of one element
jbValid ==
    /\ jb_data.len >= 4
    /\ jbIsObject(u32(jb_data, 0)) # jbIsArray(u32(jb_data, 0))
    /\ jbCount <= MaxJsonCount
    /\ jbDataStart <= jb_data.len
    /\ jbIsScalar(u32(jb_data, 0)) =>
           (jbIsArray(u32(jb_data, 0)) /\ jbCount = 1)
    /\ jbIsArray(u32(jb_data, 0)) => jbInside(jbAll, 0)
    /\ jbIsObject(u32(jb_data, 0)) =>
           /\ jbInside(jbKeys, 0)
           /\ jbInside(jbVals, jeSum(jbKeys, 0, jbCount - 1))
           /\ \A i, j \in 0..(jbCount - 1) :
                  i # j => Sub(jb_data, jbDataStart + jeStart(jbKeys, i, 0),
                               jbDataStart + jeStart(jbKeys, i + 1, 0))
                           # Sub(jb_data,
                                 jbDataStart + jeStart(jbKeys, j, 0),
                                 jbDataStart + jeStart(jbKeys, j + 1, 0))

\* C17: a valid container of count n, n = 0 included, decodes to an object
\* of n pairs, to an array of n elements, or, for a scalar, to its one value
C17_CountIsKept ==
    (jb_pc = "parsed" /\ jbValid) =>
        IF jbIsObject(u32(jb_data, 0))
        THEN /\ jb_result.kind = "object"
             /\ Cardinality(DOMAIN jb_result.val) = jbCount
        ELSE IF jbIsScalar(u32(jb_data, 0))
        THEN jb_result = arrayElem(jb_data, jbAll, jbDataStart, 0)
        ELSE /\ jb_result.kind = "array"
             /\ Len(jb_result.val) = jbCount

(***************************************************************************)
(* Properties of the range decoder.                                        *)
(***************************************************************************)
rgFlags == At(rg_data, rg_data.len - 1)

\* the length of the bound stored at offset off: the element size, or the
\* length the 1-byte varlena header of a numeric gives
rgBoundLen(off) ==
    IF rg_oid = OidNumRange THEN At(rg_data, off) \div 2
    ELSE rangeElemSize(rg_oid)

rgLowerLen ==
    IF rangeEmpty(rgFlags) \/ rangeLbInf(rgFlags) THEN 0 ELSE rgBoundLen(4)

rgUpperLen ==
    IF rangeEmpty(rgFlags) \/ rangeUbInf(rgFlags) THEN 0
    ELSE rgBoundLen(4 + rgLowerLen)

\* the value is [range_oid][lb?][ub?][flags] and nothing else
rgWellFormed ==
    /\ rg_data.len >= 5
    /\ rg_data.len = 4 + rgLowerLen + rgUpperLen + 1

\* the bound stored in the n bytes at offset off
rgBound(off, n) ==
    IF rg_oid = OidNumRange
    THEN ValueBound(DecodeNumeric(Slice(rg_data, off + 1, off + n)))
    ELSE ValueBound(DecodeType(Slice(rg_data, off, off + n),
                               rangeElemOid(rg_oid)))

\* C18: for a range value of a supported range type, decodeRange takes the
\* flags from the last byte, gives "empty" when the empty bit is set, and
\* otherwise the brackets of lb_inc / ub_inc around the lower bound read
\* right after the range OID and the upper bound read right after the lower
\* bound, an infinite bound left blank
C18_RangeBoundsAndBrackets ==
    (rg_pc = "done" /\ rgWellFormed) =>
        rg_result =
            IF rangeEmpty(rgFlags) THEN RangeEmptyText
            ELSE RangeText(rgFlags,
                     IF rangeLbInf(rgFlags) THEN BlankBound
                     ELSE rgBound(4, rgLowerLen),
                     IF rangeUbInf(rgFlags) THEN BlankBound
                     ELSE rgBound(4 + rgLowerLen, rgUpperLen))

(***************************************************************************)
(* Properties of dropped-column recovery.                                  *)
(***************************************************************************)
\* the pg_attribute rows that are physical slots of the recovered relation
drSlots ==
    {i \in DOMAIN dr_rows : /\ dr_rows[i].attrelid = RecoveredRel
                            /\ dr_rows[i].attnum > 0}

drData == ParseHeapTuple(dr_raw).Data

\* the bytes a value stored at offset at occupies: attlen for a fixed-width
\* slot, the length its header declares for a varlena
drStoredLen(attlen, at) ==
    IF attlen > 0 THEN attlen
    ELSE IF At(drData, at) % 2 = 1 THEN At(drData, at) \div 2
    ELSE jnLongLen(u32(drData, at))

\* the value stored at offset at is whole: inside the user data, and for a
\* varlena under a short or long header longer than the header itself
drStored(attlen, at) ==
    /\ at + drStoredLen(attlen, at) <= drData.len
    /\ attlen = -1 =>
          IF At(drData, at) % 2 = 1 THEN At(drData, at) \div 2 > 1
          ELSE At(drData, at) % 4 = 0 /\ jnLongLen(u32(drData, at)) > 4

\* the decode schema: one column per slot, in attnum order, each with the
\* slot's length and alignment, a dropped slot named dropped_<attnum>
drSchemaOfSlots ==
    /\ Len(dr_cols) = Cardinality(drSlots)
    /\ \A k \in DOMAIN dr_cols : dr_cols[k].Num = k
    /\ \A i \in drSlots :
          /\ dr_cols[dr_rows[i].attnum].Len = dr_rows[i].attlen
          /\ dr_cols[dr_rows[i].attnum].Align = dr_rows[i].attalign
          /\ dr_rows[i].attisdropped =>
                 dr_cols[dr_rows[i].attnum].Name
                     = droppedName(dr_rows[i].attnum)

\* the dropped slot k of a decoded row: a null slot takes no bytes; a
\* stored value is read at the slot's alignment, is in the row under
\* dropped_<k>, and takes its stored length; the next column starts after it
drSlotRead(k) ==
    LET st == dr_result.steps[k]
        at == align(st.before, alignFromChar(dr_cols[k].Align))
    IN IF IsNull(ParseHeapTuple(dr_raw), k)
       THEN /\ st.after = st.before
            /\ rowValue(dr_cols, dr_result.steps, droppedName(k)) = NilResult
       ELSE drStored(dr_cols[k].Len, at) =>
              /\ st.at = at
              /\ st.after = at + drStoredLen(dr_cols[k].Len, at)
              /\ droppedName(k) \in rowNames(dr_cols, dr_result.steps)
              /\ ~rowValue(dr_cols, dr_result.steps, droppedName(k)).panic
              /\ rowValue(dr_cols, dr_result.steps, droppedName(k)).kind
                    # "nil"
              /\ k < Len(dr_result.steps) =>
                    dr_result.steps[k + 1].before = st.after

\* C20: the decode schema has one column per physical slot in attnum order,
\* a dropped slot keeps its length and alignment under the name
\* dropped_<attnum>, the recovered row carries the value still stored in
\* the slot under that name, and the columns after the slot are read from
\* the offset after it
C20_DroppedSlotKeepsLayout ==
    /\ dr_pc \in {"rows", "done"} => drSchemaOfSlots
    /\ (dr_pc = "done" /\ ~dr_result.nil) =>
          \A i \in drSlots :
              dr_rows[i].attisdropped => drSlotRead(dr_rows[i].attnum)

(***************************************************************************)
(* Properties of the remote facade.                                        *)
(***************************************************************************)
\* the catalog paths: the database list and the two catalogs of a database
CatalogPaths ==
    {<<"global">>} \cup {<<k, db>> : k \in {"class", "attr"}, db \in {1, 5, 6}}

\* the reader has been invoked for the path
rcUsed(path) == path \in DOMAIN rc_client.reads

\* what the client caches of a catalog path: the database list, or the
\* tables and columns of the database (nothing before they are loaded)
rcCached(c, path) ==
    IF path = <<"global">> THEN c.cache.databases
    ELSE IF path[2] \in DOMAIN c.cache.tables
    THEN <<c.cache.tables[path[2]], c.cache.columns[path[2]]>>
    ELSE <<>>

\* C11: once a catalog path has been used, no later call invokes the
\* reader for it again, and what is cached of it stays the same
C11_CatalogReadOnce ==
    [][\A p \in CatalogPaths :
          rcUsed(p) =>
              /\ rc_client'.reads[p] = rc_client.reads[p]
              /\ rcCached(rc_client', p) = rcCached(rc_client, p)]_remoteVars

(***************************************************************************)
(* What the caller of the remote facade receives.                          *)
(***************************************************************************)
\* how often the client's reader was invoked for a path
rcReads(c, p) == IF p \in DOMAIN c.reads THEN c.reads[p] ELSE 0

\* the paths for which the reader returned an error during a call that
\* took the client from pre to post while the files of broken failed
rcFailed(pre, post, broken) ==
    {p \in broken : rcReads(post, p) > rcReads(pre, p)}

\* the file of zero bytes a reader returns without error
rcEmptyIf(file, path, ps) == IF path \in ps THEN File(0, <<>>) ELSE file

\* the data directory with the files of ps present and empty
rcEmptied(content, ps) ==
    [global |-> rcEmptyIf(content.global, <<"global">>, ps),
     class |-> [db \in DOMAIN content.class |->
                   rcEmptyIf(content.class[db], <<"class", db>>, ps)],
     attr |-> [db \in DOMAIN content.attr |->
                  rcEmptyIf(content.attr[db], <<"attr", db>>, ps)],
     heap |-> [db \in DOMAIN content.heap |->
                  [fn \in DOMAIN content.heap[db] |->
                      rcEmptyIf(content.heap[db][fn], <<"heap", db, fn>>,
                                ps)]]]

\* what the call would have returned had the failed reads succeeded with
\* empty files
rcOutIfEmpty(op, pre, broken, failed) ==
    Facade(op, pre, FileSystem(rcEmptied(RemoteContent, failed),
                               broken \ failed)).out

\* C12: when the reader returns an error for a path a facade operation
\* needs, the caller can tell: the operation does not return what it
\* returns when the same files are read without error and are empty.
C12_ReaderErrorSurfaced ==
    [][(rc_calls' # rc_calls
        /\ rcFailed(rc_client, rc_client', rc_broken) # {})
       => rc_out' # rcOutIfEmpty(rc_op', rc_client, rc_broken,
                                 rcFailed(rc_client, rc_client', rc_broken))
      ]_remoteVars

\* C19: with a reader that never fails, DumpAll of a new client yields the
\* databases, tables and rows that DumpDataDir yields with default options
\* over the same files.
C19_DumpAllIsDumpDataDir ==
    [][(rc_calls' # rc_calls /\ rc_op'.name = "DumpAll"
        /\ rc_broken = {} /\ rc_client = NewRemoteClient)
       => rc_out'.Databases = DumpDataDir(rcFS, NilOptions).Databases
      ]_remoteVars

(***************************************************************************)
(* Properties of the control file parser.                                  *)
(***************************************************************************)
\* one bit of CRC-32C with the reflected polynomial 0x82F63B78
crcBit(crc) ==
    IF crc.lo % 2 = 1
    THEN xor32(shr32(crc, 1), [hi |-> 33526, lo |-> 15224])
    ELSE shr32(crc, 1)

\* k bits of CRC-32C
RECURSIVE crcBits(_, _)
crcBits(crc, k) ==
    IF k = 0 THEN crc
    ELSE Only({crcBits(crcBit(c), k - 1) : c \in {crc}})

\* one byte of CRC-32C: the byte enters the low end of the register
crcByte(crc, b) == crcBits([hi |-> crc.hi, lo |-> xor16(crc.lo, b)], 8)

\* the register of CRC-32C after the bytes data[a:b]
RECURSIVE crcBytes(_, _, _, _)
crcBytes(data, a, b, crc) ==
    IF b <= a THEN crc
    ELSE IF b = a + 1 THEN crcByte(crc, At(data, a))
    ELSE Only({crcBytes(data, (a + b) \div 2, b, c) :
                  c \in {crcBytes(data, a, (a + b) \div 2, crc)}})

\* CRC-32C of the first n bytes: register preset to and result inverted
\* with FFFFFFFF
crc32c(data, n) ==
    xor32(crcBytes(data, 0, n, [hi |-> 65535, lo |-> 65535]),
          [hi |-> 65535, lo |-> 65535])

\* the CRC word the file stores: the last field of the 296-byte structure,
\* little-endian at offset 288, before four bytes of padding
cfStored ==
    [hi |-> At(cf_data, 290) + 256 * At(cf_data, 291),
     lo |-> At(cf_data, 288) + 256 * At(cf_data, 289)]

cfParsed == cf_pc = "done" /\ ~cf_result.err

\* C21: a control file that parses, of any length from the minimum on, is
\* reported crc_valid exactly when its stored CRC word is the CRC-32C
\* (reflected polynomial 0x82F63B78) of the bytes that precede the word.
C21_CrcValidIffStoredMatches ==
    cfParsed => (cf_result.CRCValid <=> cfStored = crc32c(cf_data, 288))

\* both outcomes on files longer than the minimum
C21_Witness ==
    /\ cfParsed /\ cf_data.len = PageSize /\ cf_result.CRCValid
    /\ cfStored # [hi |-> 0, lo |-> 0]

\* C24: the redo WAL file name is 24 hex digits; the first 8 are the
\* timeline ID recorded in the control file, the other 16 the HIGH and LOW
\* parts derived from the redo LSN.
C24_WalNameCarriesTimeline ==
    cfParsed =>
        /\ Len(cf_result.RedoWALFile) = 24
        /\ SubSeq(cf_result.RedoWALFile, 1, 8) = hex32(cf_result.TimeLineID)
        /\ SubSeq(cf_result.RedoWALFile, 9, 24)
               = hex32(segNoHigh(cf_result.RedoLSN))
                 \o hex32(segNoLow(cf_result.RedoLSN))

(***************************************************************************)
(* Properties of the page checksum.                                        *)
(***************************************************************************)
\* h * 0x01000193 modulo 2^32
fnvTimesPrime(h) ==
    Only({[hi |-> (((x.lo * 403) \div 65536) + x.hi * 403 + x.lo * 256)
                  % 65536,
           lo |-> (x.lo * 403) % 65536] : x \in {h}})

\* the 32-bit word w of the page, little-endian, bytes 8 and 9 taken as zero
fnvWord(page, w) ==
    [hi |-> (IF 4 * w + 2 \in {8, 9} THEN 0 ELSE At(page, 4 * w + 2))
            + 256 * (IF 4 * w + 3 \in {8, 9} THEN 0 ELSE At(page, 4 * w + 3)),
     lo |-> (IF 4 * w \in {8, 9} THEN 0 ELSE At(page, 4 * w))
            + 256 * (IF 4 * w + 1 \in {8, 9} THEN 0 ELSE At(page, 4 * w + 1))]

\* FNV-1a: the word is XORed in, then the sum is multiplied by the prime
fnvStep(h, word) == fnvTimesPrime(xor32(h, word))

\* lane i after its rounds a..b-1: round k absorbs the word 32 * k + i
RECURSIVE fnvLane(_, _, _, _, _)
fnvLane(page, i, a, b, h) ==
    IF b <= a THEN h
    ELSE IF b = a + 1
    THEN Only({fnvStep(c, fnvWord(page, 32 * a + i)) : c \in {h}})
    ELSE Only({fnvLane(page, i, (a + b) \div 2, b, c) :
                  c \in {fnvLane(page, i, a, (a + b) \div 2, h)}})

\* the lanes a..b-1, each started from basis, combined with XOR
RECURSIVE fnvLanes(_, _, _, _)
fnvLanes(page, a, b, basis) ==
    IF b = a + 1 THEN fnvLane(page, a, 0, 64, basis)
    ELSE xor32(fnvLanes(page, a, (a + b) \div 2, basis),
               fnvLanes(page, (a + b) \div 2, b, basis))

\* the block number mixed in at the end, and 32 bits folded to 16 by hi ^ lo
fnvFolded(sum, block) ==
    xor16(xor16(sum.hi, block.hi), xor16(sum.lo, block.lo))

fnvChecksum(page, block, basis) ==
    Only({fnvFolded(sum, block) : sum \in {fnvLanes(page, 0, 32, basis)}})

\* the FNV offset basis 0x811C9DC5
fnvBasis == [hi |-> 33052, lo |-> 40389]

ckStored == At(ck_page, 8) + 256 * At(ck_page, 9)

ckVerified == ck_pc = "done" /\ ck_page.len = PageSize

\* C22: VerifyPageChecksum reports a page valid for block B exactly when
\* the page is all zero or its stored 16-bit checksum is the 32-lane FNV-1a
\* (prime 0x01000193) of its words with bytes 8-9 zeroed, lane i taking the
\* words at positions i mod 32, the lanes XORed, B mixed in at the end and
\* the 32 bits folded to 16 by hi ^ lo.
C22_ValidIffFnvChecksum ==
    ckVerified =>
        (ck_result.Valid <=>
            (isZeroPage(ck_page)
             \/ ckStored = fnvChecksum(ck_page, ck_block, fnvBasis)))

(***************************************************************************)
(* Properties of the index file parser.                                    *)
(***************************************************************************)
\* the last two bytes of the first page, little-endian
ixPageID == At(ix_data, PageSize - 2) + 256 * At(ix_data, PageSize - 1)

\* C23: a page whose last two bytes are the sentinel 0xFF80, 0xFF81 or
\* 0xFF82 is classified as Hash, GiST or SP-GiST, whatever the rest of the
\* page, the declared special offset included, holds.
C23_SentinelDecidesType ==
    ix_pc = "detected" =>
        /\ ixPageID = 65408 => ix_type = IndexTypeHash
        /\ ixPageID = 65409 => ix_type = IndexTypeGiST
        /\ ixPageID = 65410 => ix_type = IndexTypeSPGiST

\* C30: on a file of at least one page ParseIndexFile returns without
\* failure, reports TotalPages = floor(len / 8192) and gives one page entry
\* per page in block order, whatever the pages declare.
C30_ParseIndexFileTotal ==
    ix_pc = "parsed" /\ ix_data.len >= 8192 =>
        /\ ~ix_info.panic /\ ~ix_info.err
        /\ ix_info.TotalPages = ix_data.len \div 8192
        /\ Len(ix_info.Pages) = ix_info.TotalPages
        /\ \A k \in DOMAIN ix_info.Pages : ix_info.Pages[k].PageNumber = k - 1

\* C25: on an 8192-byte input whose header passes validation, headers that
\* declare a page of 16384 or 32768 bytes with lower or upper above 8192
\* and headers whose lower is not 24 + 4k included, ParsePage reads line
\* pointers and tuple bytes only inside the slice it was given and returns
\* without failure.
C25_ParsePageStaysInside ==
    (pg_pc = "done" /\ \A k \in 1..pgPageCount : validHeader(pgHeader(k)))
        => ~pg_result.panic


\* C26: a varlena column whose first byte is the TOAST pointer mark 0x01
\* decodes to a value, not to null, and moves the offset past the pointer,
\* which is never shorter than its mark byte and its tag byte
C26_ToastPointerSurfaced ==
    tp_pc = "done" =>
        \A i \in 1..Len(tpSteps) :
            (/\ tp_cols[i].Len = -1
             /\ ~tpSteps[i].null
             /\ tpSteps[i].at < tpData.len
             /\ At(tpData, tpSteps[i].at) = 1)
                => (tpSteps[i].val.kind # "nil" /\ tpSteps[i].consumed >= 2)


\* C27: a failed read leaves nothing behind in the cache: a facade call
\* made while every file is readable returns what a new client returns
\* over the same files, whatever reads failed during the calls before it.
C27_FailedReadNotCached ==
    [][(rc_calls' # rc_calls /\ rc_broken = {})
       => rc_out' = Facade(rc_op', NewRemoteClient, rcFS).out
      ]_remoteVars


\* the attribute count in the header of the tuple under decode
tpNatts == ParseHeapTuple(tp_raw).Natts

\* the steps of the row decoded against the first natts columns only
tpShortSteps ==
    DecodeTuple(ParseHeapTuple(tp_raw), SubSeq(tp_cols, 1, tpNatts)).steps

\* C28: when the header counts fewer attributes than the schema declares,
\* every column after the counted ones decodes to null without consuming
\* bytes, with or without a null bitmap, and the counted columns decode as
\* they do against the schema cut to the counted columns
C28_ColumnsBeyondNattsNull ==
    (tp_pc = "done" /\ ~tp_result.nil /\ tpNatts < Len(tp_cols)) =>
        \A i \in 1..Len(tpSteps) :
            IF i > tpNatts
            THEN tpSteps[i].val.kind = "nil" /\ tpSteps[i].consumed = 0
            ELSE i <= Len(tpShortSteps) /\ tpSteps[i] = tpShortSteps[i]


(***************************************************************************)
(* Properties of the array decoder.                                        *)
(***************************************************************************)
\* C29: decodeArray returns without a panic, reserves room for and loops
\* over no more elements than a constant multiple of the input length, and
\* looks at no byte behind the input, whatever the header declares; the
\* multiple is 8, the elements a null bitmap describes with one byte
C29_DecodeArrayBounded ==
    ar_pc = "done" =>
        /\ ~ar_result.panic
        /\ ar_result.alloc <= 8 * ar_raw.len
        /\ ar_result.work <= 8 * ar_raw.len
        /\ ar_result.reach <= ar_raw.len

====
